---- MODULE Spec2Model ----
(***************************************************************************)
(* The background clipping orchestrator of the grocery coupon extension:   *)
(* the service-worker half of src/src/content.ts (message handlers, the    *)
(* batch loop processOffersInBackground, saveClippingSession), the clip    *)
(* executor of the content script (rateLimit, clipOffer) and the popup's   *)
(* writes of its cached coupon list (src/src/popup.ts).                    *)
(*                                                                         *)
(* JavaScript is single threaded: every action below is one run-to-        *)
(* completion segment of a handler, from one await to the next.            *)
(***************************************************************************)
EXTENDS Integers, Sequences, FiniteSets, TLC

\* ------------------------------------------------------------------ bounds
MaxRuns == 2        \* start-run commands accepted in one behaviour
MaxStops == 1       \* stop-run commands accepted in one behaviour
MaxPopupWrites == 1 \* popup writes of its cached list in one behaviour
MaxOffers == 13     \* offers handed to start-run, summed over the runs
MaxFetch == 2       \* already-clipped offers in one popup fetch
NumIds == 2         \* distinct offer ids
MaxCallers == 3     \* concurrent callers of rateLimit (clip requests of one batch)
MaxTime == 3000     \* the content script's clock stops here (ms)
TickMs == 250       \* granularity of the clock (ms)
MaxFaults == 1      \* storage operations that reject in one behaviour
MaxCoupons == 3     \* clipped coupons in storage when the browser starts
MaxUpdates == 1     \* update-stats commands accepted in one behaviour
MaxTicks == 2       \* steps of TickMs the service worker's clock takes in SpecTime
MaxPatterns == 2    \* known substrings that one provider message contains
MaxClicks == 3      \* invocations of clipAllCoupons in one behaviour
MaxPageOffers == 2  \* offers that fetchAllOffers returns to the page-level clipper

\* ------------------------------------------------------- program constants
BATCH_SIZE == 5
MAX_SESSIONS == 50
RATE_LIMIT_MS == 1000
DATA_RETENTION_DAYS == 90
MAX_SESSION_HISTORY == 100

\* --------------------------------------------------------------- SkipReason
EXPIRED_OR_INACTIVE == "expired_or_inactive"
NOT_AVAILABLE_IN_STORE == "not_available_in_store"
NOT_ELIGIBLE == "not_eligible"
DISPLAY_PERIOD_ENDED == "display_period_ended"
LIMIT_EXCEEDED == "limit_exceeded"
UNKNOWN == "unknown"
UNKNOWN_WITH_CLIPID == "unknown_with_clipid"
UNEXPECTED_RESPONSE == "unexpected_response"
CANNOT_CLIP == "cannot_clip"
NoReason == "none"

PermanentReasons ==
  {EXPIRED_OR_INACTIVE, NOT_AVAILABLE_IN_STORE, NOT_ELIGIBLE,
   DISPLAY_PERIOD_ENDED, LIMIT_EXCEEDED}

\* The substrings clipOffer and the batch loop look for in a provider message.
\* A message is modelled by the set of these substrings it contains.
ExpiryPatterns == {"not yet active", "past expiry", "shutoff date"}

\* ------------------------------------------------- raw provider outcomes
\* reject:   chrome.tabs.sendMessage rejects (no content script answers)
\* auth:     getAuthHeaders() found a token and a store id
\* thrown:   fetch or response.json() throws; thrownMsg: patterns in its text
\* httpOk:   response.ok;  hasItems: result.items is a non-empty array
\* status, clipId, msg: fields of result.items[0]
RawDefault ==
  [reject |-> FALSE, auth |-> TRUE, thrown |-> FALSE, thrownMsg |-> {},
   httpOk |-> TRUE, hasItems |-> TRUE, status |-> 1, clipId |-> TRUE, msg |-> {}]

RawOf(name) ==
  CASE name = "clipped"          -> RawDefault
    [] name = "pastExpiry"       -> [RawDefault EXCEPT !.status = 0, !.clipId = FALSE, !.msg = {"past expiry"}]
    [] name = "statusZeroClipId" -> [RawDefault EXCEPT !.status = 0, !.msg = {}]
    [] name = "httpError"        -> [RawDefault EXCEPT !.httpOk = FALSE]
    [] name = "alreadyMsg"       -> [RawDefault EXCEPT !.status = 0, !.msg = {"already clipped"}]
    [] name = "limit"            -> [RawDefault EXCEPT !.status = 0, !.clipId = FALSE, !.msg = {"limit"}]
    [] name = "noReasonGiven"    -> [RawDefault EXCEPT !.status = 0, !.clipId = FALSE, !.msg = {}]
    [] name = "oddStatus"        -> [RawDefault EXCEPT !.status = 2, !.clipId = FALSE, !.msg = {}]
    [] name = "thrownExpiry"     -> [RawDefault EXCEPT !.thrown = TRUE, !.thrownMsg = {"past expiry"}]
    [] name = "reject"           -> [RawDefault EXCEPT !.reject = TRUE]
    [] OTHER                     -> RawDefault

\* The outcomes the offers of the catalogue cycle through.
RawCycle == <<"clipped", "pastExpiry", "statusZeroClipId", "httpError", "alreadyMsg",
              "limit", "noReasonGiven", "thrownExpiry", "oddStatus", "reject">>

\* ------------------------------------------------------------------ offers
\* An offer: its id, the provider-side status and clip metadata it was fetched
\* with, and (raw) what the provider will answer to a clip request for it.
Offer(k) ==
  [id |-> ((k - 1) % NumIds) + 1, status |-> "A", clipMeta |-> FALSE,
   raw |-> RawCycle[((k - 1) % Len(RawCycle)) + 1]]

OfferList(n) == [j \in 1..n |-> Offer(j)]

\* empty, a single offer, one full batch and a rest, two full batches and a rest
OfferLengths == {0, 1, BATCH_SIZE + 1, 2 * BATCH_SIZE + 3}

OfferLists == {OfferList(n) : n \in OfferLengths}

\* What the popup finds already clipped (status C) in a fetched offer list:
\* up to MaxFetch offers, with distinct ids (stride 1) or all with one id (stride 0).
ClippedOffer(id) == [id |-> id, status |-> "C", clipMeta |-> TRUE, raw |-> "fetched"]
FetchedList(n, stride) == [j \in 1..n |-> ClippedOffer((((j - 1) * stride) % NumIds) + 1)]
FetchedLists == {FetchedList(n, stride) : n \in 1..MaxFetch, stride \in {0, 1}}

\* ------------------------------------------------ clip executor (content script)
Response(success, already, skipped, reason, error) ==
  [success |-> success, wasAlreadyClipped |-> already, wasSkipped |-> skipped,
   reason |-> reason, error |-> error]

Failure(error) == Response(FALSE, FALSE, FALSE, NoReason, error)
Skip(reason) == Response(TRUE, FALSE, TRUE, reason, {})

isOfferAlreadyClipped(offer) == offer.status = "C" /\ offer.clipMeta

ClassifyItemStatusOnly(item) ==
  IF item.status = 1 THEN Response(TRUE, FALSE, FALSE, NoReason, {})
  ELSE IF item.msg \cap ExpiryPatterns # {} THEN Skip(EXPIRED_OR_INACTIVE)
  ELSE Skip(UNEXPECTED_RESPONSE)

\* The classification of result.items[0], in the order of the else-if chain.
ClassifyItem(item) ==
  IF item.status = 1 /\ item.clipId THEN Response(TRUE, FALSE, FALSE, NoReason, {})
  ELSE IF item.status = 0 /\ item.clipId /\ "already clipped" \in item.msg
    THEN Response(TRUE, TRUE, FALSE, NoReason, {})
  ELSE IF item.msg \cap ExpiryPatterns # {} THEN Skip(EXPIRED_OR_INACTIVE)
  ELSE IF item.status = 0 /\ ~item.clipId THEN
    IF item.msg \cap {"region", "store"} # {} THEN Skip(NOT_AVAILABLE_IN_STORE)
    ELSE IF item.msg \cap {"limit", "maximum"} # {} THEN Skip(LIMIT_EXCEEDED)
    ELSE IF item.msg \cap {"qualify", "eligible"} # {} THEN Skip(NOT_ELIGIBLE)
    ELSE IF item.msg \cap {"display", "promotional period"} # {} THEN Skip(DISPLAY_PERIOD_ENDED)
    ELSE Skip(CANNOT_CLIP)
  ELSE IF item.status = 0 /\ item.clipId THEN
    IF "already clipped" \in item.msg THEN Response(TRUE, TRUE, FALSE, NoReason, {})
    ELSE Skip(UNKNOWN_WITH_CLIPID)
  ELSE Skip(UNEXPECTED_RESPONSE)

\* clipOffer when the provider's side of the call turns out as raw; the
\* answer goes through handleClipOffer, which forwards the fields.
ClipResponse(offer, raw) ==
  IF isOfferAlreadyClipped(offer) THEN Response(TRUE, TRUE, FALSE, NoReason, {})
  ELSE IF ~raw.auth THEN Failure({})
  ELSE IF raw.thrown THEN Failure(raw.thrownMsg)
  ELSE IF ~raw.httpOk THEN Failure({})
  ELSE IF ~raw.hasItems THEN Failure({})
  ELSE ClassifyItem(raw)

clipOffer(offer) == ClipResponse(offer, RawOf(offer.raw))

\* ------------------------------------------------ one clip call of a batch
OfferResult(offer, success, already, skipped, reason) ==
  [offer |-> offer, success |-> success, wasAlreadyClipped |-> already,
   wasSkipped |-> skipped, reason |-> reason]

\* The callback of batch.map: the tab's answer, re-read for expiry.
ResultOf(offer, raw) ==
  IF raw.reject THEN OfferResult(offer, FALSE, FALSE, FALSE, NoReason)
  ELSE
    LET response == ClipResponse(offer, raw)
        assumeExpired == response.wasSkipped /\ response.reason \in {NoReason, UNKNOWN}
        missedExpired == ~response.wasSkipped /\ ~response.success
                         /\ response.error \cap ExpiryPatterns # {}
    IN OfferResult(offer,
         response.success \/ missedExpired,
         response.wasAlreadyClipped,
         response.wasSkipped \/ missedExpired,
         IF assumeExpired \/ missedExpired THEN EXPIRED_OR_INACTIVE ELSE response.reason)

BatchResult(offer) == ResultOf(offer, RawOf(offer.raw))

\* The result goes to newClippedCoupons
IsNewClipped(result) ==
  result.success /\ (result.wasAlreadyClipped \/ ~result.wasSkipped)

\* if (reasonText === EXPIRED_OR_INACTIVE || ... || reasonText === LIMIT_EXCEEDED)
IsPermanentReasonAny(reasonText) == reasonText \in PermanentReasons \cup {UNKNOWN_WITH_CLIPID}
IsPermanentReason(reasonText) == reasonText \in PermanentReasons

\* The result goes to newSkippedCoupons
IsNewSkipped(result) ==
  /\ result.success
  /\ ~(result.wasAlreadyClipped \/ ~result.wasSkipped)
  /\ result.wasSkipped
  /\ IsPermanentReason(IF result.reason = NoReason THEN UNKNOWN ELSE result.reason)

ClippedRecord(offer) == [id |-> offer.id, src |-> offer.raw, status |-> "clipped"]
SkippedRecord(result) ==
  [id |-> result.offer.id, src |-> result.offer.raw, status |-> "skipped",
   skipReason |-> result.reason]

NewClippedCouponsAllOrNothing(results) ==
  IF \E j \in 1..Len(results) : ~results[j].success THEN <<>>
  ELSE LET kept == SelectSeq(results, IsNewClipped) IN [j \in 1..Len(kept) |-> kept[j].offer]
NewClippedCoupons(results) ==
  LET kept == SelectSeq(results, IsNewClipped) IN [j \in 1..Len(kept) |-> kept[j].offer]
NewSkippedCoupons(results) ==
  LET kept == SelectSeq(results, IsNewSkipped) IN [j \in 1..Len(kept) |-> SkippedRecord(kept[j])]

HasId(list, id) == \E j \in 1..Len(list) : list[j].id = id

\* for (const offer of newClippedCoupons) if (!existing.find(..)) existing.push(..)
RECURSIVE MergeClipped(_, _)
MergeClipped(existing, new) ==
  IF new = <<>> THEN existing
  ELSE MergeClipped(
         IF HasId(existing, Head(new).id) THEN existing
         ELSE Append(existing, ClippedRecord(Head(new))),
         Tail(new))

RECURSIVE MergeSkipped(_, _)
MergeSkipped(existing, new) ==
  IF new = <<>> THEN existing
  ELSE MergeSkipped(
         IF HasId(existing, Head(new).id) THEN existing
         ELSE Append(existing, Head(new)),
         Tail(new))

\* popup: the offers of a fetch that are status C and not in the cached list
AlreadyClippedOffers(allOffers, myClippedCoupons) ==
  SelectSeq(allOffers, LAMBDA o : ~HasId(myClippedCoupons, o.id) /\ o.status = "C")

\* ===================================================================== state
VARIABLES
  clippingState,  \* the singleton: isActive, and currentStats, a reference into statsObjects
  statsObjects,   \* the ClippingStats objects made so far (one per start-run, 0 the initial one)
  storage,        \* chrome.storage.local: clippedCoupons, skippedCoupons, clippingSessions
  run,            \* run[r]: the r-th call of processOffersInBackground and its position
  stopHandler,    \* the handleStopClipping call in progress
  popup,          \* the popup's cached myClippedCoupons and clippingStats
  budget,         \* commands accepted so far
  hist,           \* history of each run, for the properties only
  limiter,        \* the content script's clock, lastApiCall and the callers of rateLimit
  startup,        \* the onStartup listener's call in progress
  probe,          \* a provider answer handed to the classification of clipOffer, and its result
  badge,          \* the text and background colour of the extension's badge
  updater,        \* the handleUpdateStats call in progress and its response
  page            \* the page-level clipper: isClipping and the calls of clipAllCoupons

vars == <<clippingState, statsObjects, storage, run, stopHandler, popup, budget, hist, limiter,
          startup, probe, badge, updater, page>>

Runs == 1..MaxRuns
Callers == 1..MaxCallers
IdleCaller == [pc |-> "idle", wakeAt |-> 0]

\* The invocations of clipAllCoupons (clicks on the page's button).
Clicks == 1..MaxClicks
NoCall == [pc |-> "none", total |-> 0, processed |-> 0, fetched |-> FALSE, error |-> FALSE]

InitialStats == [total |-> 0, processed |-> 0]

NewStats(n) ==
  [total |-> n, processed |-> 0, clipped |-> 0, alreadyClipped |-> 0,
   skipped |-> 0, failed |-> 0]

Stats == statsObjects[clippingState.currentStats]

\* startTime and lastActivity of the state before any start or stop: null
NoTime == 0

NoRun ==
  [pc |-> "none", offers |-> <<>>, i |-> 0, pending |-> 0, settled |-> <<>>,
   clipped |-> <<>>, skipped |-> <<>>, stats |-> 0, duration |-> 0, sessions |-> <<>>]

NoHist ==
  [dispatched |-> 0, applied |-> 0, stopAt |-> -1, stopSeen |-> FALSE,
   supersededAt |-> -1, superseding |-> FALSE, startedAfterStop |-> FALSE,
   recorded |-> FALSE, session |-> InitialStats,
   sent |-> <<>>, lateApplied |-> 0, faultAt |-> -1, faultSaved |-> FALSE,
   sessionsRead |-> <<>>, startError |-> FALSE]

IdleStop ==
  [pc |-> "idle", wasActive |-> FALSE, hasFinalStats |-> FALSE,
   finalStats |-> InitialStats, ended |-> {}, duration |-> 0, sessions |-> <<>>,
   sessionsRead |-> <<>>]

\* the clippingState key of storage, as serialized by storage.local.set (its
\* isActive and currentStats: no code reads the key back)
Persisted(isActive, stats) == [isActive |-> isActive, currentStats |-> stats]

\* clippingState as a message carries it: currentStats by value
StateMessage(state, stats) ==
  [isActive |-> state.isActive, currentStats |-> stats,
   startTime |-> state.startTime, lastActivity |-> state.lastActivity]

IdleUpdater ==
  [pc |-> "idle", patch |-> <<>>, merged |-> InitialStats, response |-> InitialStats]

IdleStartup == [pc |-> "idle", now |-> 0, clippingSessions |-> <<>>]

NoProbe ==
  [pc |-> "none", offer |-> Offer(1), item |-> RawDefault, response |-> Failure({}),
   result |-> OfferResult(Offer(1), FALSE, FALSE, FALSE, NoReason), requests |-> 0]

\* ------------------------------------------------------ updateBadgeProgress
\* the badge texts: '', `${percentage}%` and unclippedCount.toString()
EmptyText == [kind |-> "empty", n |-> 0]
PercentText(percentage) == [kind |-> "percent", n |-> percentage]
CountText(unclippedCount) == [kind |-> "count", n |-> unclippedCount]

NoBadge == [text |-> EmptyText, color |-> "default"]

\* Math.round((processed / total) * 100), for total > 0
Percentage(processed, total) == (200 * processed + total) \div (2 * total)

BadgeProgressShowingZero(shown, isActive, stats, stored) ==
  IF isActive THEN
    IF stats.total > 0
      THEN [text |-> PercentText(Percentage(stats.processed, stats.total)),
            color |-> "#2563eb"]
      ELSE shown
  ELSE IF stored.availableCoupons # 0 THEN
    LET skippedCount == Len(stored.skippedCoupons)
        unclippedCount == stored.availableCoupons - Len(stored.clippedCoupons) - skippedCount
    IN IF unclippedCount >= 0
         THEN [text |-> CountText(unclippedCount), color |-> "#16a34a"]
         ELSE [shown EXCEPT !.text = EmptyText]
  ELSE [shown EXCEPT !.text = EmptyText]

\* The badge updateBadgeProgress leaves, from the state and the storage it
\* reads (availableCoupons is 0 while the key is not set). The calls of
\* chrome.action it awaits are not steps of their own.
BadgeProgress(shown, isActive, stats, stored) ==
  IF isActive THEN
    IF stats.total > 0
      THEN [text |-> PercentText(Percentage(stats.processed, stats.total)),
            color |-> "#2563eb"]
      ELSE shown
  ELSE IF stored.availableCoupons # 0 THEN
    LET skippedCount == Len(stored.skippedCoupons)
        unclippedCount == stored.availableCoupons - Len(stored.clippedCoupons) - skippedCount
    IN IF unclippedCount > 0
         THEN [text |-> CountText(unclippedCount), color |-> "#16a34a"]
         ELSE [shown EXCEPT !.text = EmptyText]
  ELSE [shown EXCEPT !.text = EmptyText]

\* The service worker has just been loaded, over the storage an earlier
\* session of the browser left.
InitFrom(clippedCoupons, clippingSessions, input) ==
  /\ clippingState = [isActive |-> FALSE, currentStats |-> 0,
                      startTime |-> NoTime, lastActivity |-> NoTime]
  /\ statsObjects = [g \in 0..(MaxRuns + MaxUpdates) |-> InitialStats]
  /\ storage = [clippedCoupons |-> clippedCoupons, skippedCoupons |-> <<>>,
                clippingSessions |-> clippingSessions, availableCoupons |-> 0,
                clippingStats |-> InitialStats,
                clippingState |-> Persisted(FALSE, InitialStats)]
  /\ run = [r \in Runs |-> NoRun]
  /\ stopHandler = IdleStop
  /\ popup = [myClippedCoupons |-> <<>>, clippingStats |-> InitialStats,
              state |-> StateMessage([isActive |-> FALSE, startTime |-> NoTime,
                                      lastActivity |-> NoTime], InitialStats),
              badgeRequested |-> FALSE]
  /\ budget = [runs |-> 0, stops |-> 0, offers |-> 0, popupWrites |-> 0, faults |-> 0,
               updates |-> 0]
  /\ hist = [r \in Runs |-> NoHist]
  /\ limiter = [now |-> RATE_LIMIT_MS, lastApiCall |-> 0,
                caller |-> [c \in Callers |-> IdleCaller], grants |-> <<>>]
  /\ startup = IdleStartup
  /\ probe = input
  /\ badge = NoBadge
  /\ updater = IdleUpdater
  /\ page = [isClipping |-> FALSE, call |-> [k \in Clicks |-> NoCall]]

Init == InitFrom(<<>>, <<>>, NoProbe)

InProgress(r) == run[r].pc \notin {"none", "done"}

\* ------------------------------------------------------ saveClippingSession
SessionDurationFromEpoch(now, startTime) == now

\* duration: clippingState.startTime ? Date.now() - clippingState.startTime : 0
SessionDuration(now, startTime) == IF startTime # NoTime THEN now - startTime ELSE 0

\* sessions.push(session); splice down to MAX_SESSIONS
PushSessionNoSplice(sessions, session) == Append(sessions, session)

PushSession(sessions, session) ==
  LET pushed == Append(sessions, session) IN
  IF Len(pushed) > MAX_SESSIONS
    THEN SubSeq(pushed, Len(pushed) - MAX_SESSIONS + 1, Len(pushed))
    ELSE pushed

\* ------------------------------------------------ processOffersInBackground
Min(a, b) == IF a < b THEN a ELSE b

BatchToEnd(offers, i) == SubSeq(offers, i + 1, Len(offers))
Batch(offers, i) == SubSeq(offers, i + 1, Min(i + BATCH_SIZE, Len(offers)))

\* for (...; i < offers.length && clippingState.isActive; ...)
LoopConditionStale(i, offers, isActive) == i < Len(offers)
LoopCondition(i, offers, isActive) == i < Len(offers) /\ isActive

\* The loop head at index i, up to the next await: either the next batch is
\* dispatched, or the loop is left and, if the flag is still set, the run
\* clears it and calls saveClippingSession(clippingState.currentStats).
LoopHead(r, i) ==
  IF LoopCondition(i, run[r].offers, clippingState.isActive) THEN
    /\ run' = [run EXCEPT ![r].pc = "join", ![r].i = i,
                          ![r].pending = Len(Batch(run[r].offers, i)),
                          ![r].settled = <<>>,
                          ![r].clipped = <<>>, ![r].skipped = <<>>]
    /\ hist' = [hist EXCEPT
                   ![r].dispatched = @ + Len(Batch(run[r].offers, i)),
                   ![r].sent = @ \o [j \in 1..Len(Batch(run[r].offers, i)) |-> i + j]]
    /\ UNCHANGED clippingState
  ELSE IF clippingState.isActive THEN
    /\ clippingState' = [clippingState EXCEPT !.isActive = FALSE]
    /\ run' = [run EXCEPT ![r].pc = "sessGet", ![r].i = i,
                          ![r].stats = clippingState.currentStats,
                          ![r].duration = SessionDuration(limiter.now, clippingState.startTime),
                          ![r].clipped = <<>>, ![r].skipped = <<>>]
    /\ UNCHANGED hist
  ELSE
    /\ run' = [run EXCEPT ![r].pc = "done", ![r].i = i,
                          ![r].clipped = <<>>, ![r].skipped = <<>>]
    /\ UNCHANGED <<clippingState, hist>>

StartBackgroundClippingOverActive(offers) ==
  /\ budget.runs < MaxRuns
  /\ budget.offers + Len(offers) <= MaxOffers
  /\ LET r == budget.runs + 1 IN
     /\ clippingState' = [clippingState EXCEPT !.isActive = TRUE,
                                              !.startTime = IF clippingState.isActive
                                                              THEN @ ELSE limiter.now,
                                              !.currentStats = r]
     /\ statsObjects' = [statsObjects EXCEPT ![r] = NewStats(Len(offers))]
     /\ run' = [run EXCEPT ![r] = [NoRun EXCEPT !.pc = "starting", !.offers = offers]]
     /\ budget' = [budget EXCEPT !.runs = r, !.offers = @ + Len(offers)]
     /\ hist' = [q \in Runs |->
          IF q < r /\ InProgress(q)
            THEN [hist[q] EXCEPT
                   !.supersededAt = IF @ = -1 /\ clippingState.isActive
                                      THEN hist[q].dispatched ELSE @,
                   !.startedAfterStop = @ \/ hist[q].stopAt # -1]
          ELSE IF q = r
            THEN [hist[q] EXCEPT !.superseding = clippingState.isActive]
            ELSE hist[q]]
  /\ storage' = [storage EXCEPT !.clippingState = Persisted(TRUE, NewStats(Len(offers)))]
  /\ UNCHANGED <<stopHandler, popup, limiter, startup, probe, badge, updater, page>>

\* handleStartBackgroundClipping up to its await of storage.local.set
StartBackgroundClipping(offers) ==
  /\ budget.runs < MaxRuns
  /\ budget.offers + Len(offers) <= MaxOffers
  /\ LET r == budget.runs + 1 IN
     /\ clippingState' = [clippingState EXCEPT !.isActive = TRUE,
                                              !.startTime = limiter.now,
                                              !.currentStats = r]
     /\ statsObjects' = [statsObjects EXCEPT ![r] = NewStats(Len(offers))]
     /\ run' = [run EXCEPT ![r] = [NoRun EXCEPT !.pc = "starting", !.offers = offers]]
     /\ budget' = [budget EXCEPT !.runs = r, !.offers = @ + Len(offers)]
     /\ hist' = [q \in Runs |->
          IF q < r /\ InProgress(q)
            THEN [hist[q] EXCEPT
                   !.supersededAt = IF @ = -1 /\ clippingState.isActive
                                      THEN hist[q].dispatched ELSE @,
                   !.startedAfterStop = @ \/ hist[q].stopAt # -1]
          ELSE IF q = r
            THEN [hist[q] EXCEPT !.superseding = clippingState.isActive]
            ELSE hist[q]]
  /\ storage' = [storage EXCEPT !.clippingState = Persisted(TRUE, NewStats(Len(offers)))]
  /\ UNCHANGED <<stopHandler, popup, limiter, startup, probe, badge, updater, page>>

\* ... the state is saved: processOffersInBackground runs up to its first
\* await, and the response carries the state to the popup.
StartResume(r) ==
  /\ run[r].pc = "starting"
  /\ LoopHead(r, 0)
  /\ popup' = [popup EXCEPT !.clippingStats = Stats]
  /\ UNCHANGED <<statsObjects, storage, stopHandler, budget, limiter, startup, probe, badge, updater, page>>

\* handleStartBackgroundClipping with a message that has no offers field:
\* isActive and startTime are assigned, then offers.length throws and the
\* catch answers with the error. No run is started.
StartWithoutOffers ==
  /\ budget.runs < MaxRuns
  /\ LET r == budget.runs + 1 IN
     /\ clippingState' = [clippingState EXCEPT !.isActive = TRUE, !.startTime = limiter.now]
     /\ run' = [run EXCEPT ![r] = [NoRun EXCEPT !.pc = "done"]]
     /\ budget' = [budget EXCEPT !.runs = r]
     /\ hist' = [hist EXCEPT ![r].startError = TRUE]
  /\ UNCHANGED <<statsObjects, storage, stopHandler, popup, limiter, startup, probe, badge, updater, page>>

\* handleStartBackgroundClipping whose storage.local.set rejects: the state
\* has been initialised, the catch answers with the error and
\* processOffersInBackground is not called.
StartStateWriteFails(offers) ==
  /\ budget.runs < MaxRuns
  /\ budget.faults < MaxFaults
  /\ LET r == budget.runs + 1 IN
     /\ clippingState' = [clippingState EXCEPT !.isActive = TRUE,
                                              !.startTime = limiter.now,
                                              !.currentStats = r]
     /\ statsObjects' = [statsObjects EXCEPT ![r] = NewStats(Len(offers))]
     /\ run' = [run EXCEPT ![r] = [NoRun EXCEPT !.pc = "done", !.offers = offers]]
     /\ budget' = [budget EXCEPT !.runs = r, !.faults = @ + 1]
     /\ hist' = [hist EXCEPT ![r].startError = TRUE]
  /\ UNCHANGED <<storage, stopHandler, popup, limiter, startup, probe, badge, updater, page>>

\* handleStartClipping (the startClipping action): the flag is set, the
\* stats are the message's if it carries any, the badge is updated and the
\* state saved. No run is started.
StartClipping(withStats) ==
  /\ budget.runs < MaxRuns
  /\ LET r == budget.runs + 1 IN
     /\ clippingState' = [clippingState EXCEPT
                            !.isActive = TRUE,
                            !.startTime = limiter.now,
                            !.currentStats = IF withStats THEN r ELSE @]
     /\ statsObjects' = IF withStats
                          THEN [statsObjects EXCEPT ![r] = NewStats(BATCH_SIZE)]
                          ELSE statsObjects
     /\ run' = [run EXCEPT ![r] = [NoRun EXCEPT !.pc = "done"]]
     /\ budget' = [budget EXCEPT !.runs = r]
     /\ storage' = [storage EXCEPT
                      !.clippingState = Persisted(TRUE, statsObjects'[clippingState'.currentStats])]
     /\ badge' = BadgeProgress(badge, TRUE, statsObjects'[clippingState'.currentStats], storage)
  /\ UNCHANGED <<stopHandler, popup, hist, limiter, startup, probe, updater, page>>

SettleBatchDroppedWhenStopped(r) ==
  /\ run[r].pc = "join"
  /\ LET batch == Batch(run[r].offers, run[r].i)
         batchResults == IF clippingState.isActive
                           THEN [j \in 1..Len(batch) |-> BatchResult(batch[j])]
                           ELSE <<>>
         newClippedCoupons == NewClippedCoupons(batchResults)
         newSkippedCoupons == NewSkippedCoupons(batchResults)
     IN
     /\ statsObjects' = [statsObjects EXCEPT
                           ![clippingState.currentStats].processed = @ + Len(batchResults)]
     /\ run' = [run EXCEPT
                  ![r].pending = 0,
                  ![r].pc = IF newClippedCoupons # <<>> \/ newSkippedCoupons # <<>>
                              THEN "get" ELSE "save",
                  ![r].clipped = newClippedCoupons,
                  ![r].skipped = newSkippedCoupons]
     /\ hist' = [hist EXCEPT
                    ![r].applied = @ + Len(batchResults),
                    ![r].lateApplied = @ + IF clippingState.isActive THEN 0 ELSE Len(batchResults)]
  /\ UNCHANGED <<clippingState, storage, stopHandler, popup, budget, limiter, startup, probe, badge, updater, page>>

\* One clip call of the batch in flight settles: the promise of position j of
\* batchPromises is fulfilled with its result. The calls settle in any order.
ClipCallSettles(r, j) ==
  /\ run[r].pc = "join"
  /\ j \in 1..Len(Batch(run[r].offers, run[r].i))
  /\ \A k \in 1..Len(run[r].settled) : run[r].settled[k] # j
  /\ run' = [run EXCEPT ![r].settled = Append(@, j)]
  /\ UNCHANGED <<clippingState, statsObjects, storage, stopHandler, popup, budget, hist, limiter, startup, probe, badge, updater, page>>

SettleBatchInCompletionOrder(r) ==
  /\ run[r].pc = "join"
  /\ LET batch == Batch(run[r].offers, run[r].i)
         batchResults == [k \in 1..Len(run[r].settled) |-> BatchResult(batch[run[r].settled[k]])]
         newClippedCoupons == NewClippedCoupons(batchResults)
         newSkippedCoupons == NewSkippedCoupons(batchResults)
     IN
     /\ statsObjects' = [statsObjects EXCEPT
                           ![clippingState.currentStats].processed = @ + Len(batchResults)]
     /\ run' = [run EXCEPT
                  ![r].pending = 0,
                  ![r].pc = IF newClippedCoupons # <<>> \/ newSkippedCoupons # <<>>
                              THEN "get" ELSE "save",
                  ![r].clipped = newClippedCoupons,
                  ![r].skipped = newSkippedCoupons]
     /\ hist' = [hist EXCEPT
                    ![r].applied = @ + Len(batchResults),
                    ![r].lateApplied = @ + IF clippingState.isActive THEN 0 ELSE Len(batchResults)]
  /\ UNCHANGED <<clippingState, storage, stopHandler, popup, budget, limiter, startup, probe, badge, updater, page>>

\* The clip calls of the batch in flight have all settled: Promise.all
\* resolves and the results are applied in the order of the batch, up to the
\* await of storage.local.get (or of the badge update).
SettleBatch(r) ==
  /\ run[r].pc = "join"
  /\ LET batch == Batch(run[r].offers, run[r].i)
         batchResults == [j \in 1..Len(batch) |-> BatchResult(batch[j])]
         newClippedCoupons == NewClippedCoupons(batchResults)
         newSkippedCoupons == NewSkippedCoupons(batchResults)
     IN
     /\ statsObjects' = [statsObjects EXCEPT
                           ![clippingState.currentStats].processed = @ + Len(batchResults)]
     /\ run' = [run EXCEPT
                  ![r].pending = 0,
                  ![r].pc = IF newClippedCoupons # <<>> \/ newSkippedCoupons # <<>>
                              THEN "get" ELSE "save",
                  ![r].clipped = newClippedCoupons,
                  ![r].skipped = newSkippedCoupons]
     /\ hist' = [hist EXCEPT
                    ![r].applied = @ + Len(batchResults),
                    ![r].lateApplied = @ + IF clippingState.isActive THEN 0 ELSE Len(batchResults)]
  /\ UNCHANGED <<clippingState, storage, stopHandler, popup, budget, limiter, startup, probe, badge, updater, page>>

\* storage.local.get answers: the new records are merged into what was read
\* and storage.local.set is called with the merged lists.
ReadStorage(r) ==
  /\ run[r].pc = "get"
  /\ run' = [run EXCEPT
               ![r].pc = "set",
               ![r].clipped = MergeClipped(storage.clippedCoupons, run[r].clipped),
               ![r].skipped = MergeSkipped(storage.skippedCoupons, run[r].skipped)]
  /\ UNCHANGED <<clippingState, statsObjects, storage, stopHandler, popup, budget, hist, limiter, startup, probe, badge, updater, page>>

WriteStorageNotAwaited(r) ==
  /\ run[r].pc = "set"
  /\ run' = [run EXCEPT ![r].pc = "save", ![r].clipped = <<>>, ![r].skipped = <<>>]
  /\ UNCHANGED <<clippingState, statsObjects, storage, stopHandler, popup, budget, hist, limiter, startup, probe, badge, updater, page>>

\* storage.local.set replaces both lists.
WriteStorage(r) ==
  /\ run[r].pc = "set"
  /\ storage' = [storage EXCEPT !.clippedCoupons = run[r].clipped,
                                !.skippedCoupons = run[r].skipped]
  /\ run' = [run EXCEPT ![r].pc = "save", ![r].clipped = <<>>, ![r].skipped = <<>>]
  /\ UNCHANGED <<clippingState, statsObjects, stopHandler, popup, budget, hist, limiter, startup, probe, badge, updater, page>>

NextBatchOverlapping(r) ==
  /\ run[r].pc = "save"
  /\ storage' = [storage EXCEPT !.clippingState = Persisted(clippingState.isActive, Stats)]
  /\ LoopHead(r, run[r].i + BATCH_SIZE - 1)
  /\ badge' = BadgeProgress(badge, clippingState.isActive, Stats, storage)
  /\ UNCHANGED <<statsObjects, stopHandler, popup, budget, limiter, startup, probe, updater, page>>

\* The badge is updated, the state saved and the delay slept: i += batchSize
\* and the loop head is evaluated again.
NextBatch(r) ==
  /\ run[r].pc = "save"
  /\ storage' = [storage EXCEPT !.clippingState = Persisted(clippingState.isActive, Stats)]
  /\ LoopHead(r, run[r].i + BATCH_SIZE)
  /\ badge' = BadgeProgress(badge, clippingState.isActive, Stats, storage)
  /\ UNCHANGED <<statsObjects, stopHandler, popup, budget, limiter, startup, probe, updater, page>>

\* saveClippingSession of the run: storage.local.get answers, the session is
\* pushed and storage.local.set called (the stats object is serialized here).
SessionRead(r) ==
  /\ run[r].pc = "sessGet"
  /\ LET session == [by |-> r, stats |-> statsObjects[run[r].stats],
                     duration |-> run[r].duration] IN
     /\ run' = [run EXCEPT ![r].pc = "sessSet",
                           ![r].sessions = PushSession(storage.clippingSessions, session)]
     /\ hist' = [hist EXCEPT ![r].session = session.stats,
                              ![r].sessionsRead = storage.clippingSessions]
  /\ UNCHANGED <<clippingState, statsObjects, storage, stopHandler, popup, budget, limiter, startup, probe, badge, updater, page>>

SessionWrite(r) ==
  /\ run[r].pc = "sessSet"
  /\ storage' = [storage EXCEPT !.clippingSessions = run[r].sessions,
                                !.clippingState = Persisted(clippingState.isActive, Stats)]
  /\ run' = [run EXCEPT ![r].pc = "done", ![r].duration = 0, ![r].sessions = <<>>]
  /\ hist' = [hist EXCEPT ![r].recorded = TRUE]
  /\ badge' = BadgeProgress(badge, clippingState.isActive, Stats, storage)
  /\ UNCHANGED <<clippingState, statsObjects, stopHandler, popup, budget, limiter, startup, probe, updater, page>>

\* The storage operation the run awaits (the get at line 779, the set at 801
\* or the set at 809) rejects: nothing but the catch at the end of
\* processOffersInBackground handles it. The catch clears the flag and calls
\* storage.local.set({clippingState}), which may fail as well (persists).
StorageFailsSwallowed(r, persists) ==
  /\ budget.faults < MaxFaults
  /\ run[r].pc \in {"get", "set", "save"}
  /\ run' = [run EXCEPT ![r].pc = "save", ![r].clipped = <<>>, ![r].skipped = <<>>]
  /\ hist' = [hist EXCEPT ![r].faultAt = hist[r].dispatched, ![r].faultSaved = persists]
  /\ budget' = [budget EXCEPT !.faults = @ + 1]
  /\ badge' = IF run[r].pc = "save"
                THEN BadgeProgress(badge, clippingState.isActive, Stats, storage)
                ELSE badge
  /\ UNCHANGED <<clippingState, statsObjects, storage, stopHandler, popup, limiter, startup, probe, updater, page>>

StorageFailsKeepsFlag(r, persists) ==
  /\ budget.faults < MaxFaults
  /\ run[r].pc \in {"get", "set", "save"}
  /\ run' = [run EXCEPT ![r].pc = "done", ![r].clipped = <<>>, ![r].skipped = <<>>]
  /\ hist' = [hist EXCEPT ![r].faultAt = hist[r].dispatched, ![r].faultSaved = persists]
  /\ storage' = IF persists
                  THEN [storage EXCEPT !.clippingState = Persisted(clippingState.isActive, Stats)]
                  ELSE storage
  /\ budget' = [budget EXCEPT !.faults = @ + 1]
  /\ badge' = IF run[r].pc = "save"
                THEN BadgeProgress(badge, clippingState.isActive, Stats, storage)
                ELSE badge
  /\ UNCHANGED <<clippingState, statsObjects, stopHandler, popup, limiter, startup, probe, updater, page>>

StorageFails(r, persists) ==
  /\ budget.faults < MaxFaults
  /\ run[r].pc \in {"get", "set", "save"}
  /\ clippingState' = [clippingState EXCEPT !.isActive = FALSE]
  /\ run' = [run EXCEPT ![r].pc = "done", ![r].clipped = <<>>, ![r].skipped = <<>>]
  /\ hist' = [hist EXCEPT ![r].faultAt = hist[r].dispatched, ![r].faultSaved = persists]
  /\ storage' = IF persists
                  THEN [storage EXCEPT !.clippingState = Persisted(FALSE, Stats)]
                  ELSE storage
  /\ budget' = [budget EXCEPT !.faults = @ + 1]
  /\ badge' = IF run[r].pc = "save"
                THEN BadgeProgress(badge, clippingState.isActive, Stats, storage)
                ELSE badge
  /\ UNCHANGED <<statsObjects, stopHandler, popup, limiter, startup, probe, updater, page>>

\* -------------------------------------------------------- handleStopClipping
\* up to the await of updateBadgeProgress; finalStats is optional
StopClipping(withStats) ==
  /\ budget.stops < MaxStops
  /\ stopHandler.pc = "idle"
  /\ stopHandler' = [pc |-> "badge", wasActive |-> clippingState.isActive,
                     hasFinalStats |-> withStats,
                     finalStats |-> IF withStats THEN popup.clippingStats ELSE InitialStats,
                     ended |-> IF clippingState.isActive
                                 THEN {q \in Runs : InProgress(q)} ELSE {},
                     duration |-> 0, sessions |-> <<>>, sessionsRead |-> <<>>]
  /\ clippingState' = [clippingState EXCEPT !.isActive = FALSE, !.lastActivity = limiter.now]
  /\ budget' = [budget EXCEPT !.stops = @ + 1]
  /\ hist' = [q \in Runs |->
        IF InProgress(q)
          THEN [hist[q] EXCEPT
                 !.stopSeen = TRUE,
                 !.stopAt = IF @ = -1 /\ clippingState.isActive
                              THEN hist[q].dispatched ELSE @]
          ELSE hist[q]]
  /\ UNCHANGED <<statsObjects, storage, run, popup, limiter, startup, probe, badge, updater, page>>

\* if (wasActive && message.finalStats) saveClippingSession(message.finalStats)
SavesSessionWhenIdle(wasActive, hasFinalStats) == hasFinalStats
SavesSession(wasActive, hasFinalStats) == wasActive /\ hasFinalStats

StopAfterBadge ==
  /\ stopHandler.pc = "badge"
  /\ stopHandler' =
       IF SavesSession(stopHandler.wasActive, stopHandler.hasFinalStats)
         THEN [stopHandler EXCEPT
                 !.pc = "sessGet",
                 !.duration = SessionDuration(limiter.now, clippingState.startTime)]
         ELSE IdleStop
  /\ storage' =
       IF SavesSession(stopHandler.wasActive, stopHandler.hasFinalStats)
         THEN storage
         ELSE [storage EXCEPT !.clippingState = Persisted(clippingState.isActive, Stats)]
  /\ badge' = BadgeProgress(badge, clippingState.isActive, Stats, storage)
  /\ UNCHANGED <<clippingState, statsObjects, run, popup, budget, hist, limiter, startup, probe, updater, page>>

StopSessionRead ==
  /\ stopHandler.pc = "sessGet"
  /\ stopHandler' = [stopHandler EXCEPT
       !.pc = "sessSet",
       !.sessions = PushSession(storage.clippingSessions,
                                [by |-> 0, stats |-> stopHandler.finalStats,
                                 duration |-> stopHandler.duration]),
       !.sessionsRead = storage.clippingSessions]
  /\ UNCHANGED <<clippingState, statsObjects, storage, run, popup, budget, hist, limiter, startup, probe, badge, updater, page>>

StopSessionWrite ==
  /\ stopHandler.pc = "sessSet"
  /\ storage' = [storage EXCEPT !.clippingSessions = stopHandler.sessions,
                                !.clippingState = Persisted(clippingState.isActive, Stats)]
  /\ hist' = [q \in Runs |->
        IF q \in stopHandler.ended THEN [hist[q] EXCEPT !.recorded = TRUE] ELSE hist[q]]
  /\ stopHandler' = IdleStop
  /\ UNCHANGED <<clippingState, statsObjects, run, popup, budget, limiter, startup, probe, badge, updater, page>>

\* --------------------------------------------------------- handleUpdateStats
\* message.stats names some of the counters; a message without stats patches
\* nothing
StatsPatches ==
  {<<>>, [processed |-> 2], [clipped |-> 1, failed |-> 1], [total |-> 3, processed |-> 1]}

\* { ...clippingState.currentStats, ...message.stats }
MergeStats(currentStats, patch) ==
  [k \in DOMAIN currentStats \cup DOMAIN patch |->
     IF k \in DOMAIN patch THEN patch[k] ELSE currentStats[k]]

\* up to the await of updateBadgeProgress: currentStats becomes a new object
UpdateStats(patch) ==
  /\ budget.updates < MaxUpdates
  /\ updater.pc \in {"idle", "answered"}
  /\ LET merged == MergeStats(Stats, patch)
         g == MaxRuns + budget.updates + 1
     IN
     /\ statsObjects' = [statsObjects EXCEPT ![g] = merged]
     /\ clippingState' = [clippingState EXCEPT !.currentStats = g,
                                              !.lastActivity = limiter.now]
     /\ updater' = [pc |-> "badge", patch |-> patch, merged |-> merged,
                    response |-> InitialStats]
  /\ budget' = [budget EXCEPT !.updates = @ + 1]
  /\ UNCHANGED <<storage, run, stopHandler, popup, hist, limiter, startup, probe, badge, page>>

\* The badge is updated, clippingStats and clippingState are written and the
\* response is sent with clippingState.currentStats as it is by then.
UpdateStatsRespond ==
  /\ updater.pc = "badge"
  /\ badge' = BadgeProgress(badge, clippingState.isActive, Stats, storage)
  /\ storage' = [storage EXCEPT !.clippingStats = Stats,
                                !.clippingState = Persisted(clippingState.isActive, Stats)]
  /\ updater' = [updater EXCEPT !.pc = "answered", !.response = Stats]
  /\ UNCHANGED <<clippingState, statsObjects, run, stopHandler, popup, budget, hist, limiter,
                 startup, probe, page>>

\* ---------------------------------------------------------------------- popup
\* the monitor's poll while the run is active: getClippingState
PopupPoll ==
  /\ clippingState.isActive
  /\ popup.clippingStats # Stats
  /\ popup' = [popup EXCEPT !.clippingStats = Stats]
  /\ UNCHANGED <<clippingState, statsObjects, storage, run, stopHandler, budget, hist, limiter, startup, probe, badge, updater, page>>

\* The popup sends getClippingState (when it opens, and from its monitor):
\* the listener answers at once with { success: true, state: clippingState }.
QueryStateRefreshingBadge ==
  /\ popup' = [popup EXCEPT !.state = StateMessage(clippingState, Stats)]
  /\ badge' = BadgeProgress(badge, clippingState.isActive, Stats, storage)
  /\ UNCHANGED <<clippingState, statsObjects, storage, run, stopHandler, budget, hist, limiter,
                 startup, probe, updater, page>>

QueryState ==
  /\ popup' = [popup EXCEPT !.state = StateMessage(clippingState, Stats)]
  /\ UNCHANGED <<clippingState, statsObjects, storage, run, stopHandler, budget, hist, limiter,
                 startup, probe, badge, updater, page>>

\* The popup has fetched allOffers: it stores their number as availableCoupons
\* and sends updateBadge.
RefreshedLists == OfferLists \cup FetchedLists

PopupSaveRefresh(allOffers) ==
  /\ budget.popupWrites < MaxPopupWrites
  /\ ~popup.badgeRequested
  /\ storage' = [storage EXCEPT !.availableCoupons = Len(allOffers)]
  /\ popup' = [popup EXCEPT !.badgeRequested = TRUE]
  /\ budget' = [budget EXCEPT !.popupWrites = @ + 1]
  /\ UNCHANGED <<clippingState, statsObjects, run, stopHandler, hist, limiter,
                 startup, probe, badge, updater, page>>

\* case 'updateBadge': updateBadgeProgress()
UpdateBadge ==
  /\ popup.badgeRequested
  /\ badge' = BadgeProgress(badge, clippingState.isActive, Stats, storage)
  /\ popup' = [popup EXCEPT !.badgeRequested = FALSE]
  /\ UNCHANGED <<clippingState, statsObjects, storage, run, stopHandler, budget, hist, limiter,
                 startup, probe, updater, page>>

\* loadStoredData
PopupLoadStoredData ==
  /\ popup.myClippedCoupons # storage.clippedCoupons
  /\ popup' = [popup EXCEPT !.myClippedCoupons = storage.clippedCoupons]
  /\ UNCHANGED <<clippingState, statsObjects, storage, run, stopHandler, budget, hist, limiter, startup, probe, badge, updater, page>>

\* storeAlreadyClippedCoupons, for the offers of a fetch
PopupStoreAlreadyClipped(allOffers) ==
  /\ budget.popupWrites < MaxPopupWrites
  /\ LET alreadyClippedOffers == AlreadyClippedOffers(allOffers, popup.myClippedCoupons)
         cached == popup.myClippedCoupons \o
                   [j \in 1..Len(alreadyClippedOffers) |-> ClippedRecord(alreadyClippedOffers[j])]
     IN
     /\ Len(alreadyClippedOffers) > 0
     /\ popup' = [popup EXCEPT !.myClippedCoupons = cached]
     /\ storage' = [storage EXCEPT !.clippedCoupons = cached]
  /\ budget' = [budget EXCEPT !.popupWrites = @ + 1]
  /\ UNCHANGED <<clippingState, statsObjects, run, stopHandler, hist, limiter, startup, probe, badge, updater, page>>

\* ------------------------------------------------- rateLimit (content script)
\* The synchronous part of rateLimit(): either no wait is needed and the turn
\* is taken at once, or a timer is set for the rest of the interval.
WaitTime(now, lastApiCall) == RATE_LIMIT_MS - (now - lastApiCall)

RateLimitEntered(c) ==
  LET timeSinceLastCall == limiter.now - limiter.lastApiCall IN
  IF timeSinceLastCall < RATE_LIMIT_MS
    THEN [limiter EXCEPT
            !.caller[c] = [pc |-> "waiting",
                           wakeAt |-> limiter.now + WaitTime(limiter.now, limiter.lastApiCall)]]
    ELSE [limiter EXCEPT
            !.caller[c] = [pc |-> "granted", wakeAt |-> 0],
            !.lastApiCall = limiter.now,
            !.grants = Append(@, limiter.now)]

RateLimitCall(c) ==
  /\ limiter.caller[c].pc = "idle"
  /\ limiter' = RateLimitEntered(c)
  /\ UNCHANGED <<clippingState, statsObjects, storage, run, stopHandler, popup, budget, hist, startup, probe, badge, updater, page>>

\* The timer of a waiting caller fires (not before its time): lastApiCall = Date.now()
RateLimitWake(c) ==
  /\ limiter.caller[c].pc = "waiting"
  /\ limiter.now >= limiter.caller[c].wakeAt
  /\ limiter' = [limiter EXCEPT
                   !.caller[c] = [pc |-> "granted", wakeAt |-> 0],
                   !.lastApiCall = limiter.now,
                   !.grants = Append(@, limiter.now)]
  /\ UNCHANGED <<clippingState, statsObjects, storage, run, stopHandler, popup, budget, hist, startup, probe, badge, updater, page>>

\* Time passes.
Tick ==
  /\ limiter.now + TickMs <= MaxTime
  /\ limiter' = [limiter EXCEPT !.now = @ + TickMs]
  /\ UNCHANGED <<clippingState, statsObjects, storage, run, stopHandler, popup, budget, hist, startup, probe, badge, updater, page>>

\* Date.now() of the service worker moves on.
WorkerTick ==
  /\ limiter.now + TickMs <= RATE_LIMIT_MS + MaxTicks * TickMs
  /\ Tick

\* --------------------------------------- clipAllCoupons (page-level clipper)
\* An invocation up to its first await: it returns at once if isClipping is
\* set; otherwise it sets the flag, creates the overlay and calls
\* fetchAllOffers. Invocations are numbered in the order they are made.
ClipAllCoupons(k) ==
  /\ page.call[k].pc = "none"
  /\ \A j \in 1..(k - 1) : page.call[j].pc # "none"
  /\ page' = IF page.isClipping
               THEN [page EXCEPT !.call[k].pc = "ignored"]
               ELSE [page EXCEPT !.isClipping = TRUE, !.call[k].pc = "fetching"]
  /\ UNCHANGED <<clippingState, statsObjects, storage, run, stopHandler, popup, budget, hist, limiter, startup, probe, badge, updater>>

FetchAnswersKeepingFlag(k, n) ==
  /\ page.call[k].pc = "fetching"
  /\ page' = IF n = 0
               THEN [page EXCEPT !.call[k].pc = "returned", !.call[k].fetched = TRUE]
               ELSE [page EXCEPT !.call[k].pc = "clipping", !.call[k].fetched = TRUE,
                                 !.call[k].total = n]
  /\ UNCHANGED <<clippingState, statsObjects, storage, run, stopHandler, popup, budget, hist, limiter, startup, probe, badge, updater>>

\* fetchAllOffers answers with n offers: with none the function returns
\* (through finally), otherwise the first clipOffer is awaited.
FetchAnswers(k, n) ==
  /\ page.call[k].pc = "fetching"
  /\ page' = IF n = 0
               THEN [page EXCEPT !.isClipping = FALSE,
                                 !.call[k].pc = "returned", !.call[k].fetched = TRUE]
               ELSE [page EXCEPT !.call[k].pc = "clipping", !.call[k].fetched = TRUE,
                                 !.call[k].total = n]
  /\ UNCHANGED <<clippingState, statsObjects, storage, run, stopHandler, popup, budget, hist, limiter, startup, probe, badge, updater>>

\* fetchAllOffers throws (no authentication, or the request failed): catch,
\* then finally.
FetchThrows(k) ==
  /\ page.call[k].pc = "fetching"
  /\ page' = [page EXCEPT !.isClipping = FALSE,
                          !.call[k].pc = "returned", !.call[k].error = TRUE]
  /\ UNCHANGED <<clippingState, statsObjects, storage, run, stopHandler, popup, budget, hist, limiter, startup, probe, badge, updater>>

\* clipOffer answers (it returns a result for every failure): the offer is
\* counted, and either the delay before the next offer is awaited or the
\* function returns (through finally).
ClipAnswers(k) ==
  /\ page.call[k].pc = "clipping"
  /\ page' = IF page.call[k].processed < page.call[k].total - 1
               THEN [page EXCEPT !.call[k].pc = "delay", !.call[k].processed = @ + 1]
               ELSE [page EXCEPT !.isClipping = FALSE,
                                 !.call[k].pc = "returned", !.call[k].processed = @ + 1]
  /\ UNCHANGED <<clippingState, statsObjects, storage, run, stopHandler, popup, budget, hist, limiter, startup, probe, badge, updater>>

\* The 500 ms between two offers are over: the next clipOffer is awaited.
DelayEnds(k) ==
  /\ page.call[k].pc = "delay"
  /\ page' = [page EXCEPT !.call[k].pc = "clipping"]
  /\ UNCHANGED <<clippingState, statsObjects, storage, run, stopHandler, popup, budget, hist, limiter, startup, probe, badge, updater>>

\* What an invocation in progress awaits settles.
PageSettles ==
  \/ \E k \in Clicks, n \in {0, MaxPageOffers} : FetchAnswers(k, n)
  \/ \E k \in Clicks : FetchThrows(k)
  \/ \E k \in Clicks : ClipAnswers(k)
  \/ \E k \in Clicks : DelayEnds(k)

NextPage ==
  \/ \E k \in Clicks : ClipAllCoupons(k)
  \/ PageSettles

\* The requests and timers that clipAllCoupons awaits settle in the end.
SpecPage == Init /\ [][NextPage]_vars /\ WF_vars(PageSettles)

\* ============================================================ specifications
\* The background service worker under the commands of the popup.
Next ==
  \/ \E offers \in OfferLists : StartBackgroundClipping(offers)
  \/ \E r \in Runs : StartResume(r)
  \/ \E r \in Runs : SettleBatch(r)
  \/ \E r \in Runs : ReadStorage(r)
  \/ \E r \in Runs : WriteStorage(r)
  \/ \E r \in Runs : NextBatch(r)
  \/ \E r \in Runs : SessionRead(r)
  \/ \E r \in Runs : SessionWrite(r)
  \/ \E withStats \in BOOLEAN : StopClipping(withStats)
  \/ StopAfterBadge
  \/ StopSessionRead
  \/ StopSessionWrite
  \/ PopupPoll

Spec == Init /\ [][Next]_vars

\* Runs that are stopped and not overlapped: a start-run command is sent only
\* when no earlier run is still in progress; stop-run commands come at any time.
StartWhenNoRunInProgress(offers) ==
  /\ \A q \in Runs : ~InProgress(q)
  /\ StartBackgroundClipping(offers)

NextStop ==
  \/ \E offers \in OfferLists : StartWhenNoRunInProgress(offers)
  \/ \E r \in Runs : StartResume(r)
  \/ \E r \in Runs : SettleBatch(r)
  \/ \E r \in Runs : ReadStorage(r)
  \/ \E r \in Runs : WriteStorage(r)
  \/ \E r \in Runs : NextBatch(r)
  \/ \E r \in Runs : SessionRead(r)
  \/ \E r \in Runs : SessionWrite(r)
  \/ \E withStats \in BOOLEAN : StopClipping(withStats)
  \/ StopAfterBadge
  \/ StopSessionRead
  \/ StopSessionWrite
  \/ PopupPoll

SpecStop == Init /\ [][NextStop]_vars

\* Runs whose clip calls settle one by one, in any order: Promise.all resolves
\* when the last call of the batch has settled.
JoinBatch(r) ==
  /\ Len(run[r].settled) = run[r].pending
  /\ SettleBatch(r)

NextOrder ==
  \/ \E offers \in {OfferList(BATCH_SIZE + 1)} : StartWhenNoRunInProgress(offers)
  \/ \E r \in Runs : StartResume(r)
  \/ \E r \in Runs, j \in 1..BATCH_SIZE : ClipCallSettles(r, j)
  \/ \E r \in Runs : JoinBatch(r)
  \/ \E r \in Runs : ReadStorage(r)
  \/ \E r \in Runs : WriteStorage(r)
  \/ \E r \in Runs : NextBatch(r)
  \/ \E r \in Runs : SessionRead(r)
  \/ \E r \in Runs : SessionWrite(r)

SpecOrder == Init /\ [][NextOrder]_vars

\* Runs over lists of one offer, of exactly one batch and of one batch and
\* two offers, one run after the other, with stop-run commands at any time.
NextBatches ==
  \/ \E offers \in {OfferList(1), OfferList(BATCH_SIZE), OfferList(BATCH_SIZE + 2)} :
       StartWhenNoRunInProgress(offers)
  \/ \E r \in Runs : StartResume(r)
  \/ \E r \in Runs : SettleBatch(r)
  \/ \E r \in Runs : ReadStorage(r)
  \/ \E r \in Runs : WriteStorage(r)
  \/ \E r \in Runs : NextBatch(r)
  \/ \E r \in Runs : SessionRead(r)
  \/ \E r \in Runs : SessionWrite(r)
  \/ \E withStats \in BOOLEAN : StopClipping(withStats)
  \/ StopAfterBadge
  \/ StopSessionRead
  \/ StopSessionWrite

SpecBatches == Init /\ [][NextBatches]_vars

\* Runs, one after the other, whose storage operations may reject.
NextFault ==
  \/ \E offers \in OfferLists : StartWhenNoRunInProgress(offers)
  \/ \E r \in Runs : StartResume(r)
  \/ \E r \in Runs : SettleBatch(r)
  \/ \E r \in Runs : ReadStorage(r)
  \/ \E r \in Runs : WriteStorage(r)
  \/ \E r \in Runs : NextBatch(r)
  \/ \E r \in Runs : SessionRead(r)
  \/ \E r \in Runs : SessionWrite(r)
  \/ \E r \in Runs, persists \in BOOLEAN : StorageFails(r, persists)

SpecFault == Init /\ [][NextFault]_vars

\* The continuations of run r: each is scheduled by the event loop once the
\* promise it awaits has settled.
RunStep(r) ==
  \/ StartResume(r)
  \/ SettleBatch(r)
  \/ ReadStorage(r)
  \/ WriteStorage(r)
  \/ NextBatch(r)
  \/ SessionRead(r)
  \/ SessionWrite(r)

\* The continuations of handleStopClipping.
StopStep ==
  \/ StopAfterBadge
  \/ StopSessionRead
  \/ StopSessionWrite

\* Runs that end by completion, by stop-run or by a rejected storage
\* operation; every clip call settles and every other awaited operation
\* completes, so every continuation is eventually run.
NextLive ==
  \/ \E offers \in OfferLists : StartWhenNoRunInProgress(offers)
  \/ \E r \in Runs : RunStep(r)
  \/ \E withStats \in BOOLEAN : StopClipping(withStats)
  \/ StopStep
  \/ \E r \in Runs, persists \in BOOLEAN : StorageFails(r, persists)

SpecLive ==
  /\ Init /\ [][NextLive]_vars
  /\ \A r \in Runs : WF_vars(RunStep(r))
  /\ WF_vars(StopStep)

\* The session history the runs start from: one entry short of full, or full.
\* The stored sessions are told apart by their ids.
OldSession(j) == [by |-> 0 - j, stats |-> InitialStats, duration |-> 0]
StoredSessions(n) == [j \in 1..n |-> OldSession(j)]

InitSessions ==
  \E n \in {MAX_SESSIONS - 1, MAX_SESSIONS} : InitFrom(<<>>, StoredSessions(n), NoProbe)

SpecSessions == InitSessions /\ [][NextStop]_vars

\* The service worker with its clock: start-run commands sent when no run is
\* in progress, stop-run commands at any time, while time passes.
TimedLists == {OfferList(BATCH_SIZE + 1)}

NextTime ==
  \/ \E offers \in TimedLists : StartWhenNoRunInProgress(offers)
  \/ \E r \in Runs : StartResume(r)
  \/ \E r \in Runs : SettleBatch(r)
  \/ \E r \in Runs : ReadStorage(r)
  \/ \E r \in Runs : WriteStorage(r)
  \/ \E r \in Runs : NextBatch(r)
  \/ \E r \in Runs : SessionRead(r)
  \/ \E r \in Runs : SessionWrite(r)
  \/ \E withStats \in BOOLEAN : StopClipping(withStats)
  \/ StopAfterBadge
  \/ StopSessionRead
  \/ StopSessionWrite
  \/ WorkerTick

SpecTime == Init /\ [][NextTime]_vars

\* Runs that supersede one another: a start-run command arrives while at most
\* one earlier run is in progress, and no stop-run.
SupersedingLists == {OfferList(0), OfferList(BATCH_SIZE + 1)}

StartOverOneRun(offers) ==
  /\ Cardinality({q \in Runs : InProgress(q)}) <= 1
  /\ StartBackgroundClipping(offers)

NextSupersede ==
  \/ \E offers \in SupersedingLists : StartOverOneRun(offers)
  \/ \E r \in Runs : StartResume(r)
  \/ \E r \in Runs : SettleBatch(r)
  \/ \E r \in Runs : ReadStorage(r)
  \/ \E r \in Runs : WriteStorage(r)
  \/ \E r \in Runs : NextBatch(r)
  \/ \E r \in Runs : SessionRead(r)
  \/ \E r \in Runs : SessionWrite(r)
  \/ WorkerTick

SpecSupersede == Init /\ [][NextSupersede]_vars

\* Runs that overlap: a start-run command arrives while the one run in
\* progress has a batch in flight, or while no run is in progress; no stop-run.
StartOverBatchInFlight(offers) ==
  /\ Cardinality({q \in Runs : InProgress(q)}) = 1
  /\ \E q \in Runs : run[q].pc = "join"
  /\ StartBackgroundClipping(offers)

NextOverlap ==
  \/ \E offers \in TimedLists : StartWhenNoRunInProgress(offers)
  \/ \E offers \in TimedLists : StartOverBatchInFlight(offers)
  \/ \E r \in Runs : StartResume(r)
  \/ \E r \in Runs : SettleBatch(r)
  \/ \E r \in Runs : ReadStorage(r)
  \/ \E r \in Runs : WriteStorage(r)
  \/ \E r \in Runs : NextBatch(r)
  \/ \E r \in Runs : SessionRead(r)
  \/ \E r \in Runs : SessionWrite(r)

SpecOverlap == Init /\ [][NextOverlap]_vars

\* Start commands that start no run, beside runs started one after the other
\* and stop-run commands.
NextStart ==
  \/ \E offers \in TimedLists : StartWhenNoRunInProgress(offers)
  \/ StartWithoutOffers
  \/ \E offers \in TimedLists : StartStateWriteFails(offers)
  \/ \E withStats \in BOOLEAN : StartClipping(withStats)
  \/ \E r \in Runs : StartResume(r)
  \/ \E r \in Runs : SettleBatch(r)
  \/ \E r \in Runs : ReadStorage(r)
  \/ \E r \in Runs : WriteStorage(r)
  \/ \E r \in Runs : NextBatch(r)
  \/ \E r \in Runs : SessionRead(r)
  \/ \E r \in Runs : SessionWrite(r)
  \/ \E withStats \in BOOLEAN : StopClipping(withStats)
  \/ StopAfterBadge
  \/ StopSessionRead
  \/ StopSessionWrite
  \/ WorkerTick

SpecStart == Init /\ [][NextStart]_vars

\* Runs, one after the other, over the same offer: the provider answers that
\* it is past expiry (or not yet active) in one run and clips it in another.
NextReclip ==
  \/ \E offers \in {<<[Offer(1) EXCEPT !.raw = "pastExpiry"]>>, <<Offer(1)>>} :
       StartWhenNoRunInProgress(offers)
  \/ \E r \in Runs : StartResume(r)
  \/ \E r \in Runs : SettleBatch(r)
  \/ \E r \in Runs : ReadStorage(r)
  \/ \E r \in Runs : WriteStorage(r)
  \/ \E r \in Runs : NextBatch(r)
  \/ \E r \in Runs : SessionRead(r)
  \/ \E r \in Runs : SessionWrite(r)
  \/ WorkerTick

SpecReclip == Init /\ [][NextReclip]_vars

\* update-stats commands, at any time, beside runs started one after the other.
NextUpdate ==
  \/ \E offers \in TimedLists : StartWhenNoRunInProgress(offers)
  \/ \E r \in Runs : StartResume(r)
  \/ \E r \in Runs : SettleBatch(r)
  \/ \E r \in Runs : ReadStorage(r)
  \/ \E r \in Runs : WriteStorage(r)
  \/ \E r \in Runs : NextBatch(r)
  \/ \E r \in Runs : SessionRead(r)
  \/ \E r \in Runs : SessionWrite(r)
  \/ \E patch \in StatsPatches : UpdateStats(patch)
  \/ UpdateStatsRespond
  \/ WorkerTick

SpecUpdate == Init /\ [][NextUpdate]_vars

\* The badge: runs started one after the other, stop-run commands and
\* refreshes of the popup.
NextBadge ==
  \/ \E offers \in TimedLists : StartWhenNoRunInProgress(offers)
  \/ \E r \in Runs : StartResume(r)
  \/ \E r \in Runs : SettleBatch(r)
  \/ \E r \in Runs : ReadStorage(r)
  \/ \E r \in Runs : WriteStorage(r)
  \/ \E r \in Runs : NextBatch(r)
  \/ \E r \in Runs : SessionRead(r)
  \/ \E r \in Runs : SessionWrite(r)
  \/ \E withStats \in BOOLEAN : StopClipping(withStats)
  \/ StopAfterBadge
  \/ StopSessionRead
  \/ StopSessionWrite
  \/ \E allOffers \in RefreshedLists : PopupSaveRefresh(allOffers)
  \/ UpdateBadge

SpecBadge == Init /\ [][NextBadge]_vars

\* getClippingState at any time, beside runs and stop-run commands.
NextQuery ==
  \/ \E offers \in TimedLists : StartWhenNoRunInProgress(offers)
  \/ \E r \in Runs : StartResume(r)
  \/ \E r \in Runs : SettleBatch(r)
  \/ \E r \in Runs : ReadStorage(r)
  \/ \E r \in Runs : WriteStorage(r)
  \/ \E r \in Runs : NextBatch(r)
  \/ \E r \in Runs : SessionRead(r)
  \/ \E r \in Runs : SessionWrite(r)
  \/ \E withStats \in BOOLEAN : StopClipping(withStats)
  \/ StopAfterBadge
  \/ StopSessionRead
  \/ StopSessionWrite
  \/ QueryState

SpecQuery == Init /\ [][NextQuery]_vars

\* ------------------------------------------- chrome.runtime.onStartup listener
\* DATA_RETENTION_DAYS * 24 * 60 * 60 * 1000 ms; the model's clock counts
\* seconds.
RetentionWindow == DATA_RETENTION_DAYS * 24 * 60 * 60

\* a record without clippedDate
NoDate == 0

\* The clipped coupons the browser starts with: undated, or clipped at one of
\* three consecutive instants around the cutoffs of SweepTimes.
StoredDates == {NoDate, 1, 2, 3}
DatedCoupon(j, d) == [id |-> j, src |-> "stored", status |-> "clipped", clippedDate |-> d]
DatedLists ==
  UNION {{[j \in 1..n |-> DatedCoupon(j, dates[j])] : dates \in [1..n -> StoredDates]} :
           n \in 0..MaxCoupons}

\* Date.now() when the listener computes the cutoff
SweepTimes == {RetentionWindow + 2, RetentionWindow + 3}

IsActiveCouponAtCutoff(coupon, retentionCutoff) ==
  IF coupon.clippedDate = NoDate THEN TRUE
  ELSE coupon.clippedDate >= retentionCutoff

\* the filter callback: if (!coupon.clippedDate) return true;
\* return new Date(coupon.clippedDate) > retentionCutoff
IsActiveCoupon(coupon, retentionCutoff) ==
  IF coupon.clippedDate = NoDate THEN TRUE
  ELSE coupon.clippedDate > retentionCutoff

ActiveCoupons(clippedCoupons, retentionCutoff) ==
  LET active(coupon) == IsActiveCoupon(coupon, retentionCutoff)
  IN SelectSeq(clippedCoupons, active)

\* storage.local.get has answered: the clipped coupons are filtered and, if
\* any was dropped, written back (up to the await of that set, or of the
\* set of the sessions).
StartupSweep(now) ==
  /\ startup.pc = "idle"
  /\ LET activeCoupons == ActiveCoupons(storage.clippedCoupons, now - RetentionWindow) IN
     storage' = IF Len(activeCoupons) # Len(storage.clippedCoupons)
                  THEN [storage EXCEPT !.clippedCoupons = activeCoupons]
                  ELSE storage
  /\ startup' = [pc |-> "sessions", now |-> now,
                 clippingSessions |-> storage.clippingSessions]
  /\ UNCHANGED <<clippingState, statsObjects, run, stopHandler, popup, budget, hist, limiter, probe, badge, updater, page>>

\* if (data.clippingSessions.length > MAX_SESSION_HISTORY) the last
\* MAX_SESSIONS of the sessions read are written
StartupTrimSessions ==
  /\ startup.pc = "sessions"
  /\ LET sessions == startup.clippingSessions IN
     storage' = IF Len(sessions) > MAX_SESSION_HISTORY
                  THEN [storage EXCEPT !.clippingSessions =
                          SubSeq(sessions, Len(sessions) - MAX_SESSIONS + 1, Len(sessions))]
                  ELSE storage
  /\ startup' = [startup EXCEPT !.pc = "done", !.clippingSessions = <<>>]
  /\ UNCHANGED <<clippingState, statsObjects, run, stopHandler, popup, budget, hist, limiter, probe, badge, updater, page>>

InitSweep ==
  \E clippedCoupons \in DatedLists,
     n \in {0, MAX_SESSIONS, MAX_SESSION_HISTORY, MAX_SESSION_HISTORY + 1} :
    InitFrom(clippedCoupons, StoredSessions(n), NoProbe)

NextSweep ==
  \/ \E now \in SweepTimes : StartupSweep(now)
  \/ StartupTrimSessions

SpecSweep == InitSweep /\ [][NextSweep]_vars

\* ------------------------------------------- clipOffer on one provider answer
\* the substrings clipOffer looks for in item.errorMsg
KnownPatterns ==
  ExpiryPatterns \cup {"already clipped", "region", "store", "limit", "maximum",
                        "qualify", "eligible", "display", "promotional period"}

\* phrases of a provider message in another casing than the one clipOffer
\* looks for (String.prototype.includes compares code units)
CasedPhrases == {"Past Expiry", "ALREADY CLIPPED", "Store"}

\* what a provider message may contain
MessagePhrases == KnownPatterns \cup CasedPhrases

\* result.items[0] of an answer with HTTP status ok: its status, whether it
\* has a clipId, and the phrases its errorMsg contains, as written
ProbeItems ==
  {[RawDefault EXCEPT !.status = st, !.clipId = id, !.msg = m] :
     st \in {0, 1, 2}, id \in BOOLEAN,
     m \in {ps \in SUBSET MessagePhrases : Cardinality(ps) <= MaxPatterns}}

InitClassify ==
  \E item \in ProbeItems :
    InitFrom(<<>>, <<>>, [NoProbe EXCEPT !.pc = "answered", !.item = item])

\* the else-if chain of clipOffer runs on the answer
Classify ==
  /\ probe.pc = "answered"
  /\ probe' = [probe EXCEPT !.pc = "classified", !.response = ClassifyItem(probe.item)]
  /\ UNCHANGED <<clippingState, statsObjects, storage, run, stopHandler, popup, budget, hist, limiter, startup, badge, updater, page>>

NextClassify == Classify

SpecClassify == InitClassify /\ [][NextClassify]_vars

\* ------------------------------------- one clip call, from fetch to the result
\* How the provider's side of one clip call can turn out: the tab message
\* rejected, no authentication, fetch throwing (with or without an expiry
\* phrase in the exception's message), an HTTP error, no items, or an item
\* with a status, with or without a clip id, and a message.
RawOutcomes ==
  {[reject |-> rj, auth |-> au, thrown |-> th, thrownMsg |-> tm, httpOk |-> ok,
    hasItems |-> hi, status |-> st, clipId |-> id, msg |-> m] :
     rj \in BOOLEAN, au \in BOOLEAN, th \in BOOLEAN, tm \in {{}, {"past expiry"}},
     ok \in BOOLEAN, hi \in BOOLEAN, st \in {0, 1, 2}, id \in BOOLEAN,
     m \in {ps \in SUBSET KnownPatterns : Cardinality(ps) <= MaxPatterns}}

\* the offer of the call: fetched unclipped, or fetched as clipped with its
\* clip metadata
ProbeOffers == {Offer(1), ClippedOffer(1)}

InitOutcome ==
  \E offer \in ProbeOffers, raw \in RawOutcomes :
    InitFrom(<<>>, <<>>, [NoProbe EXCEPT !.pc = "answered", !.offer = offer, !.item = raw])

\* the batch callback runs on the call: clipOffer in the tab, then the
\* callback's reading of the answer
HandleOutcome ==
  /\ probe.pc = "answered"
  /\ probe' = [probe EXCEPT !.pc = "handled",
                            !.response = ClipResponse(probe.offer, probe.item),
                            !.result = ResultOf(probe.offer, probe.item)]
  /\ UNCHANGED <<clippingState, statsObjects, storage, run, stopHandler, popup, budget, hist, limiter, startup, badge, updater, page>>

NextOutcome == HandleOutcome

SpecOutcome == InitOutcome /\ [][NextOutcome]_vars

\* --------------------------------------- one clipOffer call and the limiter
\* The caller of rateLimit that the clipOffer call under observation is.
ClipCaller == 1

\* The offer of the call: fetched unclipped, fetched as clipped with its clip
\* metadata, or fetched as clipped without it; and how the provider's side of
\* the call turns out, if it is reached.
InitClipCall ==
  \E offer \in ProbeOffers \cup {[ClippedOffer(1) EXCEPT !.clipMeta = FALSE]},
     raw \in {RawOf("clipped"), RawOf("pastExpiry"), RawOf("httpError"),
              [RawDefault EXCEPT !.auth = FALSE]} :
    InitFrom(<<>>, <<>>, [NoProbe EXCEPT !.pc = "called", !.offer = offer, !.item = raw])

ClipOfferCallLimitingFirst ==
  /\ probe.pc = "called"
  /\ limiter.caller[ClipCaller].pc = "idle"
  /\ limiter' = RateLimitEntered(ClipCaller)
  /\ probe' = [probe EXCEPT !.pc = "limited"]
  /\ UNCHANGED <<clippingState, statsObjects, storage, run, stopHandler, popup, budget, hist, startup, badge, updater, page>>

\* clipOffer up to its first await: the offer's own metadata, then the
\* authentication, and only then rateLimit().
ClipOfferCall ==
  /\ probe.pc = "called"
  /\ limiter.caller[ClipCaller].pc = "idle"
  /\ IF isOfferAlreadyClipped(probe.offer) \/ ~probe.item.auth
       THEN /\ probe' = [probe EXCEPT !.pc = "handled",
                                      !.response = ClipResponse(probe.offer, probe.item),
                                      !.result = ResultOf(probe.offer, probe.item)]
            /\ UNCHANGED limiter
       ELSE /\ probe' = [probe EXCEPT !.pc = "limited"]
            /\ limiter' = RateLimitEntered(ClipCaller)
  /\ UNCHANGED <<clippingState, statsObjects, storage, run, stopHandler, popup, budget, hist, startup, badge, updater, page>>

\* rateLimit() has returned: the request is sent and its answer classified.
ClipOfferFetch ==
  /\ probe.pc = "limited"
  /\ limiter.caller[ClipCaller].pc = "granted"
  /\ probe' = [probe EXCEPT !.pc = "handled",
                            !.requests = @ + 1,
                            !.response = ClipResponse(probe.offer, probe.item),
                            !.result = ResultOf(probe.offer, probe.item)]
  /\ UNCHANGED <<clippingState, statsObjects, storage, run, stopHandler, popup, budget, hist, limiter, startup, badge, updater, page>>

\* The call beside the other clip requests of its batch.
NextClipCall ==
  \/ ClipOfferCall
  \/ ClipOfferFetch
  \/ \E c \in Callers \ {ClipCaller} : RateLimitCall(c)
  \/ \E c \in Callers : RateLimitWake(c)
  \/ Tick

SpecClipCall == InitClipCall /\ [][NextClipCall]_vars

\* Runs alone: start-run commands and the batch loops they start.
NextRuns ==
  \/ \E offers \in OfferLists : StartBackgroundClipping(offers)
  \/ \E r \in Runs : StartResume(r)
  \/ \E r \in Runs : SettleBatch(r)
  \/ \E r \in Runs : ReadStorage(r)
  \/ \E r \in Runs : WriteStorage(r)
  \/ \E r \in Runs : NextBatch(r)
  \/ \E r \in Runs : SessionRead(r)
  \/ \E r \in Runs : SessionWrite(r)

SpecRuns == Init /\ [][NextRuns]_vars

\* Runs beside the popup, which loads clippedCoupons into its cache and writes
\* the cache back when a fetch shows offers that are already clipped.
NextPopup ==
  \/ \E offers \in OfferLists : StartBackgroundClipping(offers)
  \/ \E r \in Runs : StartResume(r)
  \/ \E r \in Runs : SettleBatch(r)
  \/ \E r \in Runs : ReadStorage(r)
  \/ \E r \in Runs : WriteStorage(r)
  \/ \E r \in Runs : NextBatch(r)
  \/ \E r \in Runs : SessionRead(r)
  \/ \E r \in Runs : SessionWrite(r)
  \/ PopupLoadStoredData
  \/ \E allOffers \in FetchedLists : PopupStoreAlreadyClipped(allOffers)

SpecPopup == Init /\ [][NextPopup]_vars

\* The rate limiter of the content script under concurrent clip requests.
NextRate ==
  \/ \E c \in Callers : RateLimitCall(c)
  \/ \E c \in Callers : RateLimitWake(c)
  \/ Tick

SpecRate == Init /\ [][NextRate]_vars

\* ==================================================================== claims
NoDuplicateIds(list) ==
  \A j, k \in 1..Len(list) : list[j].id = list[k].id => j = k

\* the run has applied every one of its batches
CompletedAllBatches(r) ==
  run[r].pc \in {"sessGet", "sessSet", "done"} /\ hist[r].applied = Len(run[r].offers)

\* the session stats the run serialized, if it recorded one
RecordedSession(r) == hist[r].session # InitialStats

\* C1: after every batch of a run settles, processed equals
\* clipped + alreadyClipped + skipped + failed (stated as the claim has it).
C1_ProcessedIsSumOfOutcomes ==
  budget.runs > 0 =>
    Stats.processed = Stats.clipped + Stats.alreadyClipped + Stats.skipped + Stats.failed

\* C2: in every reachable state processed <= total (stated as the claim has it).
C2_ProcessedAtMostTotal == Stats.processed <= Stats.total

\* C3: once a new start-run is accepted while a run is active, the earlier
\* run dispatches no further batch (stated as the claim has it).
C3_SupersededRunDispatchesNothing ==
  \A r \in Runs : hist[r].supersededAt # -1 => hist[r].dispatched = hist[r].supersededAt

\* C4: when stop-run clears the active flag while batch k of a run is in
\* flight or in the delay after it, and no run is started afterwards, the run
\* dispatches nothing beyond batch k and ends having applied exactly the
\* batches 1..k; when it is the only run, the final stats are
\* processed = (offers of batches 1..k) and total = (offers of the run).
C4_StopEndsRunAfterBatchK ==
  \A r \in Runs :
    (hist[r].stopAt # -1 /\ ~hist[r].startedAfterStop) =>
      /\ hist[r].dispatched = hist[r].stopAt
      /\ run[r].pc = "done" => hist[r].applied = hist[r].stopAt
      /\ (run[r].pc = "done" /\ budget.runs = 1) =>
           /\ Stats.processed = hist[r].stopAt
           /\ Stats.total = Len(run[r].offers)

\* 13 offers, batch size 5, stopped with batch 1 out: processed = 5, total = 13
C4_Witness ==
  /\ budget.runs = 1
  /\ run[1].pc = "done"
  /\ Len(run[1].offers) = 2 * BATCH_SIZE + 3
  /\ hist[1].stopAt = BATCH_SIZE
  /\ Stats.processed = BATCH_SIZE
  /\ Stats.total = 2 * BATCH_SIZE + 3

InSupersession(r) == hist[r].supersededAt # -1 \/ hist[r].superseding

\* C6: a run that applies all its batches, sees no stop-run and takes part in
\* no supersession records a session whose stats have processed = total = the
\* number of offers it was started with (stated as the claim has it).
C6_CompletedRunStats ==
  \A r \in Runs :
    (CompletedAllBatches(r) /\ ~hist[r].stopSeen /\ ~InSupersession(r)
       /\ RecordedSession(r)) =>
      /\ hist[r].session.processed = Len(run[r].offers)
      /\ hist[r].session.total = Len(run[r].offers)

\* C7: clippedCoupons and skippedCoupons never hold two records with one
\* offer id (stated as the claim has it).
C7_NoDuplicateIds ==
  NoDuplicateIds(storage.clippedCoupons) /\ NoDuplicateIds(storage.skippedCoupons)

\* C8: an offer id recorded in clippedCoupons is still recorded there after
\* every step of the runs and of the popup (stated as the claim has it; the
\* steps of SpecPopup include neither the retention sweep nor the clear-all).
C8_ClippedRecordsStay ==
  [][\A j \in 1..Len(storage.clippedCoupons) :
       HasId(storage'.clippedCoupons, storage.clippedCoupons[j].id)]_vars

\* C9: every run that has ended after applying all its batches, or after a
\* stop-run received while it was active, has had a session appended
\* (stated as the claim has it, for the runs that take part in no
\* supersession).
C9_EndedRunRecorded ==
  \A r \in Runs :
    (run[r].pc = "done" /\ stopHandler.pc = "idle" /\ ~InSupersession(r)
       /\ (hist[r].applied = Len(run[r].offers) \/ hist[r].stopAt # -1)) =>
      hist[r].recorded

\* C10: any two turns granted by the rate limiter are at least RATE_LIMIT_MS
\* apart (stated as the claim has it).
C10_TurnsSpaced ==
  \A j, k \in 1..Len(limiter.grants) :
    j < k => limiter.grants[k] - limiter.grants[j] >= RATE_LIMIT_MS

\* C11: when an error escapes the processing of a batch, the run dispatches
\* no later batch, the active flag is false after the catch, and the
\* clippingState the catch writes has isActive = false and the stats as they
\* stood at the error (processed = the results applied so far, total = the
\* offers of the run).
C11_FatalErrorEndsRun ==
  /\ [](\A r \in Runs : hist[r].faultAt # -1 => hist[r].dispatched = hist[r].faultAt)
  /\ [][\A r \in Runs :
         (hist[r].faultAt = -1 /\ hist'[r].faultAt # -1) =>
           /\ ~clippingState'.isActive
           /\ ~InProgress(r)'
           /\ hist'[r].faultSaved =>
                /\ ~storage'.clippingState.isActive
                /\ storage'.clippingState.currentStats.processed = hist[r].applied
                /\ storage'.clippingState.currentStats.total = Len(run[r].offers)]_vars

\* 13 offers; the write of the merged collections after batch 1 rejects
C11_Witness ==
  /\ budget.runs = 1
  /\ hist[1].faultAt = BATCH_SIZE /\ hist[1].faultSaved
  /\ run[1].pc = "done"
  /\ Len(run[1].offers) = 2 * BATCH_SIZE + 3
  /\ ~clippingState.isActive
  /\ storage.clippingState = Persisted(FALSE, [NewStats(2 * BATCH_SIZE + 3) EXCEPT !.processed = BATCH_SIZE])

\* C12: a run in which a storage operation has rejected still dispatches all
\* its batches and ends with every offer processed (stated as the claim has
\* it; the runs of SpecFault see no stop-run and do not overlap).
C12_StorageFailureDoesNotAbort ==
  \A r \in Runs :
    (run[r].pc = "done" /\ hist[r].faultAt # -1) =>
      /\ hist[r].dispatched = Len(run[r].offers)
      /\ hist[r].applied = Len(run[r].offers)

\* the clip call for the offer fails at transport level: the tab message is
\* rejected, or the answer has success = false
TransportFailure(offer) == offer.raw \in {"reject", "httpError"}

\* C13: a clip call that fails at transport level affects its own offer
\* only. In a run whose batches hold such offers (and whose storage
\* operations complete), once a batch is applied every offer dispatched so
\* far is counted as processed, the failed ones included; every offer of an
\* applied batch that was clipped (or found clipped) has its id in
\* clippedCoupons, and every one refused as past expiry or over the limit has
\* its id in skippedCoupons; and the run ends having dispatched all its offers.
C13_TransportFailureIsLocal ==
  \A r \in Runs :
    (hist[r].faultAt = -1 /\ run[r].pc \in {"save", "sessGet", "sessSet", "done"}) =>
      /\ hist[r].applied = hist[r].dispatched
      /\ r = budget.runs => Stats.processed = hist[r].dispatched
      /\ \A j \in 1..hist[r].applied :
            /\ run[r].offers[j].raw \in {"clipped", "alreadyMsg"} =>
                 HasId(storage.clippedCoupons, run[r].offers[j].id)
            /\ run[r].offers[j].raw \in {"pastExpiry", "limit", "thrownExpiry"} =>
                 HasId(storage.skippedCoupons, run[r].offers[j].id)
      /\ run[r].pc = "done" => hist[r].dispatched = Len(run[r].offers)

\* 13 offers: the call for offer 4 is answered success = false in batch 1,
\* the message for offer 10 is rejected in batch 2, and batch 3 was applied
C13_Witness ==
  /\ budget.runs = 1 /\ budget.faults = 0
  /\ run[1].pc = "done"
  /\ Len(run[1].offers) = 2 * BATCH_SIZE + 3
  /\ run[1].offers[4].raw = "httpError" /\ ~BatchResult(run[1].offers[4]).success
  /\ TransportFailure(run[1].offers[2 * BATCH_SIZE])
  /\ hist[1].applied = 2 * BATCH_SIZE + 3
  /\ Stats.processed = 2 * BATCH_SIZE + 3
  /\ HasId(storage.clippedCoupons, run[1].offers[5].id)
  /\ HasId(storage.skippedCoupons, run[1].offers[2].id)

\* C14: a start-run command with an empty offer list starts no run: no
\* batch loop is in progress for it, the active flag is not set by it and
\* no session is recorded for it (stated as the claim has it).
C14_EmptyStartStartsNoRun ==
  \A r \in Runs :
    (run[r].pc # "none" /\ run[r].offers = <<>>) =>
      /\ ~InProgress(r)
      /\ r = budget.runs => ~clippingState.isActive
      /\ ~hist[r].recorded

\* C15: every run that was started eventually has ended with the active
\* flag false, whether it ends by applying all its batches, by a stop-run or
\* by an error that reaches the catch.
C15_RunReturnsToIdle ==
  \A r \in Runs :
    (run[r].pc # "none") ~> (run[r].pc = "done" /\ ~clippingState.isActive)

\* one run ended by stop-run and a later one by a rejected storage operation
C15_Witness ==
  /\ run[1].pc = "done" /\ hist[1].stopAt # -1
  /\ run[2].pc = "done" /\ hist[2].faultAt # -1
  /\ stopHandler.pc = "idle"
  /\ ~clippingState.isActive

\* C16: a stop-run does not discard the batch in flight. Once the batch
\* that was out when the flag was cleared has settled and its records are
\* written, every offer dispatched before the stop has been applied and
\* counted as processed, every one of them that was clipped (or found
\* clipped) has its id in clippedCoupons and every one skipped for a
\* permanent reason has its id in skippedCoupons.
C16_StopKeepsBatchInFlight ==
  \A r \in Runs :
    (hist[r].stopAt # -1 /\ run[r].pc \in {"save", "sessGet", "sessSet", "done"}) =>
      /\ hist[r].applied = hist[r].stopAt
      /\ r = budget.runs => Stats.processed = hist[r].stopAt
      /\ \A j \in 1..hist[r].stopAt :
            /\ run[r].offers[j].raw \in {"clipped", "alreadyMsg"} =>
                 HasId(storage.clippedCoupons, run[r].offers[j].id)
            /\ run[r].offers[j].raw \in {"pastExpiry", "limit", "thrownExpiry"} =>
                 HasId(storage.skippedCoupons, run[r].offers[j].id)

\* 13 offers, stop-run while batch 1 was in flight: its 5 results were
\* applied with the flag already false
C16_Witness ==
  /\ budget.runs = 1
  /\ run[1].pc = "done"
  /\ Len(run[1].offers) = 2 * BATCH_SIZE + 3
  /\ hist[1].stopAt = BATCH_SIZE /\ hist[1].lateApplied = BATCH_SIZE
  /\ Stats.processed = BATCH_SIZE
  /\ HasId(storage.clippedCoupons, run[1].offers[1].id)
  /\ HasId(storage.skippedCoupons, run[1].offers[2].id)

\* new is read with one session appended and, when read was full, without
\* its first (oldest) entry
AppendedTo(read, new, by, stats) ==
  /\ Len(new) > 0
  /\ Len(new) <= MAX_SESSIONS
  /\ new[Len(new)].by = by
  /\ new[Len(new)].stats = stats
  /\ SubSeq(new, 1, Len(new) - 1) = IF Len(read) >= MAX_SESSIONS THEN Tail(read) ELSE read

\* C17: clippingSessions never holds more than MAX_SESSIONS entries, and
\* every append (by a run that completes, or by the stop handler) writes the
\* history it read with the new session as last element, without the oldest
\* entry when that history was full; the stored history changes in no
\* other way.
C17_SessionHistoryBounded ==
  /\ [](Len(storage.clippingSessions) <= MAX_SESSIONS)
  /\ [][/\ \A r \in Runs :
            (run[r].pc = "sessSet" /\ run'[r].pc = "done") =>
              AppendedTo(hist[r].sessionsRead, storage'.clippingSessions, r, hist[r].session)
        /\ (stopHandler.pc = "sessSet" /\ stopHandler'.pc = "idle") =>
              AppendedTo(stopHandler.sessionsRead, storage'.clippingSessions, 0,
                         stopHandler.finalStats)
        /\ storage'.clippingSessions # storage.clippingSessions =>
              \/ stopHandler.pc = "sessSet" /\ stopHandler'.pc = "idle"
              \/ \E r \in Runs : run[r].pc = "sessSet" /\ run'[r].pc = "done"]_vars

\* the history was full, a run has appended its session and the first of
\* the stored sessions is gone
C17_Witness ==
  /\ Len(storage.clippingSessions) = MAX_SESSIONS
  /\ storage.clippingSessions[1] = OldSession(2)
  /\ storage.clippingSessions[MAX_SESSIONS].by = 1
  /\ hist[1].sessionsRead = StoredSessions(MAX_SESSIONS)
  /\ run[1].pc = "done"

C19_OfferDispatchedOnce ==
  \A r \in Runs :
    LET sent == hist[r].sent IN
    /\ \A j, k \in 1..Len(sent) : j # k => sent[j] # sent[k]
    /\ \A j \in 1..Len(sent) : sent[j] \in 1..Len(run[r].offers)
    /\ (run[r].pc = "done" /\ ~hist[r].stopSeen) =>
         \A n \in 1..Len(run[r].offers) : \E j \in 1..Len(sent) : sent[j] = n

\* a run of 13 offers, some of them failed or skipped, has ended unstopped
\* after dispatching the offers 1..13 in order
C19_Witness ==
  /\ run[1].pc = "done" /\ ~hist[1].stopSeen
  /\ hist[1].sent = [n \in 1..(2 * BATCH_SIZE + 3) |-> n]
  /\ ~BatchResult(run[1].offers[4]).success
  /\ BatchResult(run[1].offers[2]).wasSkipped

\* C20: when clipOffer classifies a provider answer as skipped, the reason
\* is that of the first group of patterns, in the order expiry, store,
\* limit, eligibility, display period, that the message matches, whatever
\* the status and the clip id; cannot_clip is given only when no pattern
\* matches and there is no clip id, unknown_with_clipid only for status 0
\* with a clip id and no pattern matching, unexpected_response only when no
\* pattern matches (stated as the claim has it).
C20_FirstMatchingPattern ==
  (probe.pc = "classified" /\ probe.response.wasSkipped) =>
    LET msg == probe.item.msg
        reason == probe.response.reason
        groups == << <<ExpiryPatterns, EXPIRED_OR_INACTIVE>>,
                     <<{"region", "store"}, NOT_AVAILABLE_IN_STORE>>,
                     <<{"limit", "maximum"}, LIMIT_EXCEEDED>>,
                     <<{"qualify", "eligible"}, NOT_ELIGIBLE>>,
                     <<{"display", "promotional period"}, DISPLAY_PERIOD_ENDED>> >>
        matches(g) == msg \cap groups[g][1] # {}
        noMatch == \A g \in 1..Len(groups) : ~matches(g)
    IN /\ \A g \in 1..Len(groups) :
            (matches(g) /\ \A h \in 1..(g - 1) : ~matches(h)) => reason = groups[g][2]
       /\ reason = CANNOT_CLIP => (noMatch /\ ~probe.item.clipId)
       /\ reason = UNKNOWN_WITH_CLIPID =>
            (noMatch /\ probe.item.status = 0 /\ probe.item.clipId)
       /\ reason = UNEXPECTED_RESPONSE => noMatch

\* C21: every provider answer whose message contains "already clipped" is
\* classified alreadyClipped, and is neither skipped nor failed (stated as
\* the claim has it).
C21_AlreadyClippedMessage ==
  (probe.pc = "classified" /\ "already clipped" \in probe.item.msg) =>
    /\ probe.response.success
    /\ probe.response.wasAlreadyClipped
    /\ ~probe.response.wasSkipped

\* the phrase in lower case
LowerCase(phrase) ==
  CASE phrase = "Past Expiry"     -> "past expiry"
    [] phrase = "ALREADY CLIPPED" -> "already clipped"
    [] phrase = "Store"           -> "store"
    [] OTHER                      -> phrase

\* C22: two provider answers that differ only in the casing of the message
\* are classified alike: an answer gets the classification of the same
\* answer with its message in lower case, and a message containing
\* "past expiry" in any casing is skipped as expired_or_inactive (stated as
\* the claim has it).
C22_CaseIndependent ==
  probe.pc = "classified" =>
    LET lower == [probe.item EXCEPT !.msg = {LowerCase(phrase) : phrase \in probe.item.msg}]
    IN /\ probe.response = ClassifyItem(lower)
       /\ ("past expiry" \in lower.msg /\ probe.response.wasSkipped) =>
            probe.response.reason = EXPIRED_OR_INACTIVE

\* C23: every raw outcome of a clip call is handled as exactly one of
\* clipped, alreadyClipped, skipped (with a reason of the enumeration) and
\* failed, as the result loop tells them apart; and it is handled as
\* clipped only when the HTTP exchange succeeded and the item has status 1
\* and a clip id.
C23_ExactlyOneOutcome ==
  probe.pc = "handled" =>
    LET result == probe.result
        raw == probe.item
        failed == ~result.success
        alreadyClipped == result.success /\ result.wasAlreadyClipped
        skipped == result.success /\ result.wasSkipped
        clipped == result.success /\ ~result.wasAlreadyClipped /\ ~result.wasSkipped
    IN /\ Cardinality({o \in {"failed", "alreadyClipped", "skipped", "clipped"} :
                         \/ o = "failed" /\ failed
                         \/ o = "alreadyClipped" /\ alreadyClipped
                         \/ o = "skipped" /\ skipped
                         \/ o = "clipped" /\ clipped}) = 1
       /\ skipped => result.reason \in PermanentReasons \cup
                       {UNKNOWN, UNKNOWN_WITH_CLIPID, UNEXPECTED_RESPONSE, CANNOT_CLIP}
       /\ ~skipped => result.reason = NoReason
       /\ clipped => /\ ~raw.reject /\ raw.auth /\ ~raw.thrown /\ raw.httpOk /\ raw.hasItems
                     /\ raw.status = 1 /\ raw.clipId

\* an exception whose message has an expiry phrase was handled as skipped,
\* and nothing else
C23_Witness ==
  /\ probe.pc = "handled"
  /\ probe.item.thrown /\ probe.item.thrownMsg = {"past expiry"}
  /\ ~probe.response.success
  /\ probe.result.success /\ probe.result.wasSkipped /\ ~probe.result.wasAlreadyClipped
  /\ probe.result.reason = EXPIRED_OR_INACTIVE

C24_EndSetsLastActivity ==
  [][(\/ \E r \in Runs : run[r].pc # "sessGet" /\ run'[r].pc = "sessGet"
      \/ stopHandler.pc = "idle" /\ stopHandler'.pc = "badge" /\ stopHandler'.wasActive)
       => /\ ~clippingState'.isActive
          /\ clippingState'.lastActivity = limiter.now
          /\ clippingState'.lastActivity >= clippingState'.startTime]_vars

\* C28: a session is recorded with duration = (time at which
\* saveClippingSession is called - clippingState.startTime at that time), or
\* 0 when startTime is null, and is stored with that duration; no stored
\* session has a negative duration.
C28_SessionDuration ==
  [][LET elapsed == IF clippingState.startTime = NoTime
                      THEN 0 ELSE limiter.now - clippingState.startTime
         stored == storage'.clippingSessions
     IN
     /\ \A r \in Runs :
          /\ (run[r].pc # "sessGet" /\ run'[r].pc = "sessGet") => run'[r].duration = elapsed
          /\ (run[r].pc = "sessSet" /\ run'[r].pc = "done") =>
               /\ stored[Len(stored)].by = r
               /\ stored[Len(stored)].duration = run[r].duration
     /\ (stopHandler.pc = "badge" /\ stopHandler'.pc = "sessGet") =>
          stopHandler'.duration = elapsed
     /\ (stopHandler.pc = "sessSet" /\ stopHandler'.pc = "idle") =>
          /\ stored[Len(stored)].by = 0
          /\ stored[Len(stored)].duration = stopHandler.duration
     /\ \A j \in 1..Len(stored) : stored[j].duration >= 0]_vars

\* the first run recorded its session one tick after its start; the second,
\* started then, was stopped one tick later and the stop-run recorded it
C28_Witness ==
  /\ \E j \in 1..Len(storage.clippingSessions) :
       /\ storage.clippingSessions[j].by = 1
       /\ storage.clippingSessions[j].duration = TickMs
  /\ \E j \in 1..Len(storage.clippingSessions) :
       /\ storage.clippingSessions[j].by = 0
       /\ storage.clippingSessions[j].duration = TickMs
  /\ clippingState.startTime > RATE_LIMIT_MS

\* C25: the step that accepts a start-run command with n offers leaves
\* isActive = true, startTime = the time of the step and currentStats =
\* {total: n, processed: 0, clipped: 0, alreadyClipped: 0, skipped: 0,
\* failed: 0}, whether the state before was idle or active.
C25_StartResetsState ==
  [][budget'.runs = budget.runs + 1 =>
       /\ clippingState'.isActive
       /\ clippingState'.startTime = limiter.now
       /\ statsObjects'[clippingState'.currentStats]
            = [total |-> Len(run'[budget'.runs].offers), processed |-> 0, clipped |-> 0,
               alreadyClipped |-> 0, skipped |-> 0, failed |-> 0]]_vars

\* a start-run with six offers has just been accepted, one tick after the
\* start of a run that was still active with five offers processed
C25_Witness ==
  /\ run[2].pc = "starting"
  /\ hist[2].superseding
  /\ statsObjects[1].processed = BATCH_SIZE
  /\ clippingState.startTime = RATE_LIMIT_MS + TickMs
  /\ Stats = NewStats(BATCH_SIZE + 1)

\* C30: update-stats leaves currentStats with the patch value for every
\* counter the patch names and the old value for every other counter, and
\* leaves isActive and startTime as they were; the response of the command
\* carries these merged stats.
C30_UpdateStatsMerges ==
  [][/\ budget'.updates = budget.updates + 1 =>
          LET patch == updater'.patch
              old == Stats
              new == statsObjects'[clippingState'.currentStats]
          IN /\ DOMAIN new = DOMAIN old \cup DOMAIN patch
             /\ \A k \in DOMAIN patch : new[k] = patch[k]
             /\ \A k \in DOMAIN old \ DOMAIN patch : new[k] = old[k]
             /\ clippingState'.isActive = clippingState.isActive
             /\ clippingState'.startTime = clippingState.startTime
     /\ (updater.pc = "badge" /\ updater'.pc = "answered") =>
          /\ updater'.response = updater.merged
          /\ clippingState'.isActive = clippingState.isActive
          /\ clippingState'.startTime = clippingState.startTime]_vars

C26_QueryChangesNothing ==
  /\ [](ENABLED QueryState)
  /\ [][popup'.state # popup.state =>
         /\ popup'.state = StateMessage(clippingState, Stats)
         /\ UNCHANGED <<clippingState, statsObjects, storage, badge, run, stopHandler>>]_vars

\* a query was answered while the second batch of a run was in flight, with
\* the state of that moment: active, five of six offers processed
C26_Witness ==
  /\ run[1].pc = "join" /\ run[1].i = BATCH_SIZE
  /\ clippingState.isActive
  /\ popup.state = StateMessage(clippingState, Stats)
  /\ popup.state.currentStats.processed = BATCH_SIZE
  /\ badge.text = PercentText(83)

\* C31: batches of one run do not overlap: when a run dispatches the offers
\* of a batch, every clip call of its earlier batches has settled and been
\* counted, and the records of the batch before are in storage.
C31_BatchesDoNotOverlap ==
  [][\A r \in Runs :
       hist'[r].dispatched > hist[r].dispatched =>
         /\ run[r].pending = 0
         /\ hist[r].applied = hist[r].dispatched
         /\ run[r].pc = "save" =>
              LET batch == Batch(run[r].offers, run[r].i) IN
              \A j \in 1..Len(batch) :
                /\ IsNewClipped(BatchResult(batch[j])) =>
                     HasId(storage.clippedCoupons, batch[j].id)
                /\ IsNewSkipped(BatchResult(batch[j])) =>
                     HasId(storage.skippedCoupons, batch[j].id)]_vars

\* the third batch of a run of thirteen offers is in flight: the ten offers
\* of the first two batches are counted and their records stored
C31_Witness ==
  /\ run[1].pc = "join" /\ run[1].i = 2 * BATCH_SIZE
  /\ hist[1].dispatched = 2 * BATCH_SIZE + 3
  /\ hist[1].applied = 2 * BATCH_SIZE
  /\ Len(storage.clippedCoupons) > 0 /\ Len(storage.skippedCoupons) > 0

\* ------------------------------------------------------------------- C32
\* The position in a batch of the offer a stored record was made from (the
\* offers of one batch have distinct provider answers).
PositionIn(batch, record) == CHOOSE j \in 1..Len(batch) : batch[j].raw = record.src

\* The records appended to a collection come from the batch in the order of
\* the batch, and of the offers of one id the first that qualifies is kept.
AppendedInOfferOrder(old, new, batch, qualifies) ==
  /\ Len(new) >= Len(old)
  /\ SubSeq(new, 1, Len(old)) = old
  /\ \A p \in (Len(old) + 1)..Len(new) :
       /\ \E j \in 1..Len(batch) : batch[j].raw = new[p].src /\ batch[j].id = new[p].id
       /\ qualifies[PositionIn(batch, new[p])]
       /\ \A j \in 1..(PositionIn(batch, new[p]) - 1) :
            batch[j].id = new[p].id => ~qualifies[j]
       /\ \A q \in (p + 1)..Len(new) :
            PositionIn(batch, new[p]) < PositionIn(batch, new[q])
  /\ \A j \in 1..Len(batch) :
       qualifies[j] => HasId(new, batch[j].id)

\* C32: within a batch the results are applied to the stats and appended to
\* clippedCoupons and skippedCoupons in the order of the batch's offers,
\* whatever order the clip calls settled in: the join counts every offer of
\* the batch, and the write appends the new records in batch order.
C32_AppliedInOfferOrder ==
  [][\A r \in Runs :
       LET batch == Batch(run[r].offers, run[r].i) IN
       /\ (run[r].pc = "join" /\ run'[r].pc # "join") =>
            /\ Len(run[r].settled) = Len(batch)
            /\ statsObjects'[clippingState.currentStats].processed
                 = statsObjects[clippingState.currentStats].processed + Len(batch)
            /\ run'[r].clipped = SelectSeq(batch, LAMBDA o : IsNewClipped(BatchResult(o)))
       /\ (run[r].pc = "set" /\ run'[r].pc = "save") =>
            /\ AppendedInOfferOrder(storage.clippedCoupons, storage'.clippedCoupons,
                 batch, [j \in 1..Len(batch) |-> IsNewClipped(BatchResult(batch[j]))])
            /\ AppendedInOfferOrder(storage.skippedCoupons, storage'.skippedCoupons,
                 batch, [j \in 1..Len(batch) |-> IsNewSkipped(BatchResult(batch[j]))])]_vars

\* The calls of the first batch settled last to first, and its records are stored.
C32_Witness ==
  /\ run[1].pc = "save" /\ run[1].i = 0
  /\ run[1].settled = <<5, 4, 3, 2, 1>>
  /\ Len(storage.clippedCoupons) > 0 /\ Len(storage.skippedCoupons) > 0

\* ------------------------------------------------------------------- C33
\* C33: a run partitions its offer list into consecutive batches of at most
\* BATCH_SIZE offers of which only the last may be smaller (7 offers give
\* batches of 5 and 2), and never has more than BATCH_SIZE clip calls
\* outstanding.
C33_BatchesPartitionOffers ==
  \A r \in Runs :
    /\ run[r].pending <= BATCH_SIZE
    /\ hist[r].sent = [j \in 1..hist[r].dispatched |-> j]
    /\ hist[r].dispatched <= Len(run[r].offers)
    /\ run[r].pc = "join" =>
         /\ run[r].i % BATCH_SIZE = 0
         /\ run[r].pending > 0
         /\ hist[r].dispatched = run[r].i + run[r].pending
         /\ run[r].pending = BATCH_SIZE \/ hist[r].dispatched = Len(run[r].offers)
         /\ Len(run[r].offers) = BATCH_SIZE + 2 =>
              run[r].pending = IF run[r].i = 0 THEN BATCH_SIZE ELSE 2
    /\ (run[r].pc = "done" /\ hist[r].stopAt = -1) =>
         hist[r].dispatched = Len(run[r].offers)

\* The second batch of a run over 7 offers is in flight: 2 calls outstanding.
C33_Witness ==
  /\ Len(run[1].offers) = BATCH_SIZE + 2
  /\ run[1].pc = "join" /\ run[1].i = BATCH_SIZE /\ run[1].pending = 2
  /\ hist[1].dispatched = BATCH_SIZE + 2

\* ------------------------------------------------------------------- C34
\* C34: a clipOffer call for an offer whose metadata marks it clipped
\* (status C with clip id and clip timestamp) answers alreadyClipped without
\* a network request and without a turn of the rate limiter: lastApiCall and
\* the rest of the limiter are as they were before the call.
C34_PrecheckTakesNoTurn ==
  [][(probe.pc = "called" /\ probe'.pc # "called" /\ isOfferAlreadyClipped(probe.offer)) =>
       /\ probe'.pc = "handled"
       /\ probe'.response.success /\ probe'.response.wasAlreadyClipped
       /\ ~probe'.response.wasSkipped
       /\ probe'.result.success /\ probe'.result.wasAlreadyClipped
       /\ probe'.requests = 0
       /\ limiter'.lastApiCall = limiter.lastApiCall
       /\ limiter' = limiter]_vars

\* The call answered for a clipped offer while another request had taken a
\* turn 250 ms before: it did not wait and the provider was never asked.
C34_Witness ==
  /\ probe.pc = "handled" /\ isOfferAlreadyClipped(probe.offer)
  /\ probe.response.wasAlreadyClipped /\ probe.requests = 0
  /\ ~probe.item.httpOk
  /\ limiter.caller[ClipCaller].pc = "idle"
  /\ limiter.lastApiCall > 0 /\ limiter.now - limiter.lastApiCall < RATE_LIMIT_MS

C36_OverlappedRunCompletes ==
  /\ \A r \in Runs :
       (hist[r].superseding /\ run[r].pc = "done") =>
         /\ hist[r].dispatched = Len(run[r].offers)
         /\ hist[r].applied = Len(run[r].offers)
  /\ \A q \in Runs :
       run[q].pc \in {"sessGet", "sessSet"} => run[q].stats = q

\* ------------------------------------------------------------------- C37
\* C37: whenever isActive is true a run is in progress that has not left its
\* loop, and so will clear the flag (stated as the claim has it).
C37_ActiveMeansRunInProgress ==
  clippingState.isActive =>
    \E r \in Runs : run[r].pc \in {"starting", "join", "get", "set", "save"}

\* ------------------------------------------------------------------- C38
\* C38: a start-run answered with an error leaves isActive, startTime and
\* currentStats as they were and dispatches no batch (stated as the claim
\* has it).
C38_FailedStartChangesNothing ==
  [][\A r \in Runs :
       (hist'[r].startError /\ ~hist[r].startError) =>
         /\ clippingState'.isActive = clippingState.isActive
         /\ clippingState'.startTime = clippingState.startTime
         /\ statsObjects'[clippingState'.currentStats] = statsObjects[clippingState.currentStats]
         /\ hist'[r].dispatched = 0]_vars

\* ------------------------------------------------------------------- C39
\* C39: no offer id is in clippedCoupons and in skippedCoupons at the same
\* time (stated as the claim has it).
C39_ClippedAndSkippedDisjoint ==
  \A j \in 1..Len(storage.clippedCoupons), k \in 1..Len(storage.skippedCoupons) :
    storage.clippedCoupons[j].id # storage.skippedCoupons[k].id

\* ------------------------------------------------------------------- C40
PageRunsInProgress(call) == {k \in Clicks : call[k].pc \in {"fetching", "clipping", "delay"}}

====
